---- MODULE Spec2Model ----
(***************************************************************************)
(* Resume-Parser: the Gemini credential pool (GeminiKeyManager), the        *)
(* extraction client (SimpleResumeParser) and the upload view               *)
(* (upload_resumes), as state machines.                                     *)
(*                                                                          *)
(* Time is the wall clock in whole seconds (datetime.now / time.time);      *)
(* the calendar date is the clock divided by the length of a day.           *)
(* A thread is one caller; mgr[t] is the GeminiKeyManager the caller uses.  *)
(***************************************************************************)
EXTENDS Integers, Sequences, FiniteSets, Bags, TLC

VARIABLES
    now,          \* wall clock, seconds
    keys,         \* keys[m]: GeminiKeyManager.keys of manager m
    key_usage,    \* key_usage[m]: the defaultdict of manager m (lazily filled)
    lock,         \* lock[m]: the thread inside "with self.lock", or NoThread
    environ,      \* the GEMINI_API_KEY variables of the process
    mgr,          \* mgr[t]: the manager thread t calls
    mode,         \* mode[t]: the outermost operation thread t runs
    pc,           \* pc[t]: position of thread t
    est,          \* est[t]: estimated_tokens argument of the running call
    idx,          \* idx[t]: position of the "for key in self.keys" loop
    ret,          \* ret[t]: value returned by the last get_available_key
    left,         \* calls the callers of the model may still start
    wtokens,      \* wtokens[t]: estimated_tokens of wait_for_available_key
    max_wait,     \* max_wait[t]: its max_wait argument
    start_time,   \* start_time[t]: its start_time
    wait_time,    \* wait_time[t]: its wait_time
    wake,         \* wake[t]: the clock at which time.sleep returns
    polls,        \* polls[t]: failed polls of the running wait (history)
    wret,         \* wret[t]: value returned by the last wait_for_available_key
    doc,          \* doc[t]: the file process_resume is working on
    ran,          \* ran[t]: the TextExtractor method extract_text called
    result,       \* result[t]: the result dict of process_resume
    raised,       \* raised[t]: the exception that left process_resume, if any
    parsed,       \* parsed[t]: value returned by parse_with_gemini
    configured,   \* the api_key of the last genai.configure (module-wide)
    used_key,     \* used_key[t]: the api_key in effect at generate_content
    files,        \* files[t]: the files of the upload still to be handled
    results,      \* results[t]: the results list of upload_resumes
    db,           \* the stored Resume rows, a bag (content_hash is not unique)
    targ,         \* the arguments of a text helper called on its own
    tval,         \* the value the helper returned
    tagain        \* the value of the helper applied to its own value

mgrVars == <<keys, key_usage, lock>>
gakVars == <<est, idx, ret>>
textVars == <<targ, tval, tagain>>
fixedVars == <<environ, mode, textVars>>
wfkVars == <<wtokens, max_wait, start_time, wait_time, wake, polls, wret>>
prVars == <<doc, ran, result, raised, parsed, configured, used_key>>
upVars == <<files, results, db>>
aboveWfk == <<prVars, upVars>>
outerVars == <<fixedVars, mgr, wfkVars, aboveWfk>>
vars == <<now, mgrVars, gakVars, outerVars, pc, left>>

----------------------------------------------------------------------------
(* Program constants *)

RPM_LIMIT == 15
RPD_LIMIT == 1500
TPM_LIMIT == 1000000
WindowSeconds == 60
DaySeconds == 86400

(* Bounds of the model *)

MaxCalls == 4
LeadTime == 90
Horizon == 92
NearFull == 2
MaxWaitCalls == 2
MaxResumes == 2
MaxUploads == 2
UploadSize == 8

DefaultMaxWait == 65
MaxBackoff == 10
PromptWords == 193
\* a length check that lets 9 characters through
MinTextLength_Nine == 10 - 1
MinTextLength == 10

Threads == {1, 2}
ManagerIds == 1..MaxUploads
NoThread == 0
None == "none"
Nothing == <<>>        \* None, where the other values are not strings

StartClock == DaySeconds - LeadTime
MaxClock == StartClock + Horizon
TickSizes == {30, 31}
TokenChoices == {1, TPM_LIMIT \div 2, TPM_LIMIT + 1}
MaxWaits == {0, 2, WindowSeconds, DefaultMaxWait}

----------------------------------------------------------------------------
(* Helpers *)

RECURSIVE SumTokens(_)
SumTokens(s) == IF s = <<>> THEN 0 ELSE Head(s)[2] + SumTokens(Tail(s))

Repeat(x, n) == [i \in 1..n |-> x]

Date(t) == t \div DaySeconds

----------------------------------------------------------------------------
(* GeminiKeyManager *)

\* _load_all_keys: the numbered variables in order, then the single variable
\* unless it is already among them.
LoadAllKeys(env) ==
    LET numbered == SelectSeq(env.numbered, LAMBDA k : k # None)
        InKeys(k) == \E i \in 1..Len(numbered) : numbered[i] = k
    IN  IF env.single # None /\ ~InKeys(env.single)
        THEN Append(numbered, env.single)
        ELSE numbered

Envs ==
    { [numbered |-> <<"k1", "k2">>, single |-> None],
      [numbered |-> <<"k1", None>>, single |-> "k1"],
      [numbered |-> <<None, None>>, single |-> "k1"],
      [numbered |-> <<None, "k1">>, single |-> "k2"],
      [numbered |-> <<None, None>>, single |-> None] }

\* the default factory of key_usage
DefaultUsage(t) ==
    [ requests_per_minute |-> <<>>,
      requests_today      |-> 0,
      tokens_per_minute   |-> <<>>,
      last_reset          |-> Date(t),
      is_exhausted        |-> FALSE ]

\* self.key_usage[key]: the entry, created on first reference
Usage(m, k) ==
    IF k \in DOMAIN key_usage[m] THEN key_usage[m][k] ELSE DefaultUsage(now)

SetUsage(m, k, u) ==
    [key_usage EXCEPT ![m] =
        [j \in (DOMAIN key_usage[m]) \cup {k} |-> IF j = k THEN u ELSE key_usage[m][j]]]

Fresh(t, stamp) == t - stamp < WindowSeconds

\* _clean_old_usage without the purge of the two minute windows
CleanOldUsage_NoPurge(u, t) ==
    IF u.last_reset # Date(t)
    THEN [u EXCEPT !.requests_today = 0,
                   !.last_reset = Date(t),
                   !.is_exhausted = FALSE]
    ELSE u

\* _clean_old_usage without the reset of the daily counter
CleanOldUsage_NoReset(u, t) ==
    [u EXCEPT
        !.requests_per_minute =
            SelectSeq(u.requests_per_minute, LAMBDA r : t - r < WindowSeconds),
        !.tokens_per_minute =
            SelectSeq(u.tokens_per_minute, LAMBDA e : t - e[1] < WindowSeconds)]

\* _clean_old_usage without "usage['is_exhausted'] = False"
CleanOldUsage_KeepFlag(u, t) ==
    LET purged ==
            [u EXCEPT
                !.requests_per_minute =
                    SelectSeq(u.requests_per_minute, LAMBDA r : Fresh(t, r)),
                !.tokens_per_minute =
                    SelectSeq(u.tokens_per_minute, LAMBDA e : Fresh(t, e[1]))]
    IN  IF purged.last_reset # Date(t)
        THEN [purged EXCEPT !.requests_today = 0,
                            !.last_reset = Date(t)]
        ELSE purged

\* _clean_old_usage
CleanOldUsage(u, t) ==
    LET purged ==
            [u EXCEPT
                !.requests_per_minute =
                    SelectSeq(u.requests_per_minute, LAMBDA r : Fresh(t, r)),
                !.tokens_per_minute =
                    SelectSeq(u.tokens_per_minute, LAMBDA e : Fresh(t, e[1]))]
    IN  IF purged.last_reset # Date(t)
        THEN [purged EXCEPT !.requests_today = 0,
                            !.last_reset = Date(t),
                            !.is_exhausted = FALSE]
        ELSE purged

\* the four checks of get_available_key, in the order of the code
OverRPM(u) == Len(u.requests_per_minute) >= RPM_LIMIT
\* the daily check with > for >=
OverRPD_Above(u) == u.requests_today > RPD_LIMIT
OverRPD(u) == u.requests_today >= RPD_LIMIT
\* the TPM check with >= for >
OverTPM_AtLimit(u, tokens) == SumTokens(u.tokens_per_minute) + tokens >= TPM_LIMIT
OverTPM(u, tokens) == SumTokens(u.tokens_per_minute) + tokens > TPM_LIMIT

\* get_available_key without "with self.lock"
LockFree_Ignored(m) == TRUE

\* "with self.lock": the lock is free
LockFree(m) == lock[m] = NoThread

\* where a call of get_available_key returns to
AfterGetKey(t) == IF mode[t] = "gak" THEN "idle" ELSE "wfk_polled"

\* get_available_key(tokens): enter the "with self.lock" block
GAK_Enter(t, tokens) ==
    /\ LockFree(mgr[t])
    /\ lock' = [lock EXCEPT ![mgr[t]] = t]
    /\ est' = [est EXCEPT ![t] = tokens]
    /\ idx' = [idx EXCEPT ![t] = 1]
    /\ ret' = [ret EXCEPT ![t] = None]
    /\ pc' = [pc EXCEPT ![t] = "gak_scan"]

\* one iteration of "for key in self.keys" up to the TPM check, or the
\* "return None" after the loop
GAK_Scan(t) ==
    /\ pc[t] = "gak_scan"
    /\ LET m == mgr[t] IN
       IF idx[t] > Len(keys[m])
       THEN /\ lock' = [lock EXCEPT ![m] = NoThread]
            /\ ret' = [ret EXCEPT ![t] = None]
            /\ pc' = [pc EXCEPT ![t] = AfterGetKey(t)]
            /\ idx' = [idx EXCEPT ![t] = 0]
            /\ est' = [est EXCEPT ![t] = 0]
            /\ UNCHANGED key_usage
       ELSE LET k == keys[m][idx[t]]
                u == CleanOldUsage(Usage(m, k), now)
            IN  IF u.is_exhausted \/ OverRPM(u)
                THEN /\ key_usage' = SetUsage(m, k, u)
                     /\ idx' = [idx EXCEPT ![t] = @ + 1]
                     /\ UNCHANGED <<lock, ret, pc, est>>
                ELSE IF OverRPD(u)
                THEN /\ key_usage' = SetUsage(m, k, [u EXCEPT !.is_exhausted = TRUE])
                     /\ idx' = [idx EXCEPT ![t] = @ + 1]
                     /\ UNCHANGED <<lock, ret, pc, est>>
                ELSE IF OverTPM(u, est[t])
                THEN /\ key_usage' = SetUsage(m, k, u)
                     /\ idx' = [idx EXCEPT ![t] = @ + 1]
                     /\ UNCHANGED <<lock, ret, pc, est>>
                ELSE /\ key_usage' = SetUsage(m, k, u)
                     /\ pc' = [pc EXCEPT ![t] = "gak_record"]
                     /\ UNCHANGED <<lock, ret, idx, est>>
    /\ UNCHANGED <<now, keys, outerVars, left>>

\* "Key is available, record usage" and "return key"
\* the recording without the token entry
RecordUsage_NoTokens(u, t, tokens) ==
    [u EXCEPT !.requests_per_minute = Append(@, t),
              !.requests_today = @ + 1]

\* the recording without "usage['requests_today'] += 1"
RecordUsage_NoDaily(u, t, tokens) ==
    [u EXCEPT !.requests_per_minute = Append(@, t),
              !.tokens_per_minute = Append(@, <<t, tokens>>)]

RecordUsage(u, t, tokens) ==
    [u EXCEPT !.requests_per_minute = Append(@, t),
              !.requests_today = @ + 1,
              !.tokens_per_minute = Append(@, <<t, tokens>>)]

GAK_Record(t) ==
    /\ pc[t] = "gak_record"
    /\ LET m == mgr[t]
           k == keys[m][idx[t]]
       IN  /\ key_usage' = SetUsage(m, k, RecordUsage(Usage(m, k), now, est[t]))
           /\ lock' = [lock EXCEPT ![m] = NoThread]
           /\ ret' = [ret EXCEPT ![t] = k]
    /\ pc' = [pc EXCEPT ![t] = AfterGetKey(t)]
    /\ idx' = [idx EXCEPT ![t] = 0]
    /\ est' = [est EXCEPT ![t] = 0]
    /\ UNCHANGED <<now, keys, outerVars, left>>

----------------------------------------------------------------------------
(* Environment *)

\* the wall clock advances
Tick ==
    /\ \E d \in TickSizes :
         /\ now + d <= MaxClock
         /\ now' = now + d
    /\ UNCHANGED <<mgrVars, gakVars, outerVars, pc, left>>

\* a caller starts get_available_key(estimated_tokens)
CallGetKey(t) ==
    /\ pc[t] = "idle"
    /\ mode[t] = "gak"
    /\ left > 0
    /\ \E tokens \in TokenChoices : GAK_Enter(t, tokens)
    /\ left' = left - 1
    /\ UNCHANGED <<now, keys, key_usage, outerVars>>

----------------------------------------------------------------------------
(* States a manager can be in when the callers of the model arrive *)

\* n requests of one token each recorded at time t on a fresh entry
Burst(t, n) ==
    [ requests_per_minute |-> Repeat(t, n),
      requests_today      |-> n,
      tokens_per_minute   |-> Repeat(<<t, 1>>, n),
      last_reset          |-> Date(t),
      is_exhausted        |-> FALSE ]

\* all but n of the day's requests used, the minute windows purged
DayUsed(t, n) ==
    [ requests_per_minute |-> <<>>,
      requests_today      |-> RPD_LIMIT - n,
      tokens_per_minute   |-> <<>>,
      last_reset          |-> Date(t),
      is_exhausted        |-> FALSE ]

StartUsages(pool) ==
    LET first == {<<>>} \cup
                 { [k \in {pool[1]} |-> u] :
                     u \in { Burst(StartClock, RPM_LIMIT - NearFull),
                             DayUsed(StartClock, NearFull) } }
    IN  IF Len(pool) = 0 THEN {<<>>} ELSE first

\* no caller has started anything
InitCallers ==
    /\ lock = [m \in ManagerIds |-> NoThread]
    /\ pc = [t \in Threads |-> "idle"]
    /\ est = [t \in Threads |-> 0]
    /\ idx = [t \in Threads |-> 0]
    /\ ret = [t \in Threads |-> None]
    /\ wtokens = [t \in Threads |-> 0]
    /\ max_wait = [t \in Threads |-> 0]
    /\ start_time = [t \in Threads |-> 0]
    /\ wait_time = [t \in Threads |-> 0]
    /\ wake = [t \in Threads |-> 0]
    /\ polls = [t \in Threads |-> 0]
    /\ wret = [t \in Threads |-> None]
    /\ doc = [t \in Threads |-> Nothing]
    /\ ran = [t \in Threads |-> None]
    /\ result = [t \in Threads |-> Nothing]
    /\ raised = [t \in Threads |-> Nothing]
    /\ parsed = [t \in Threads |-> Nothing]
    /\ configured = None
    /\ used_key = [t \in Threads |-> None]
    /\ files = [t \in Threads |-> <<>>]
    /\ results = [t \in Threads |-> <<>>]
    /\ db = EmptyBag
    /\ targ = Nothing
    /\ tval = Nothing
    /\ tagain = Nothing

InitPool ==
    /\ now = StartClock
    /\ \E env \in Envs :
         /\ environ = env
         /\ Len(LoadAllKeys(env)) > 0
         /\ keys = [m \in ManagerIds |-> LoadAllKeys(env)]
         /\ \E u \in StartUsages(LoadAllKeys(env)) :
              key_usage = [m \in ManagerIds |-> u]
    /\ mgr = [t \in Threads |-> 1]
    /\ mode = [t \in Threads |-> "gak"]
    /\ left = MaxCalls
    /\ InitCallers

NextPool ==
    \/ Tick
    \/ \E t \in Threads : CallGetKey(t)
    \/ \E t \in Threads : GAK_Scan(t)
    \/ \E t \in Threads : GAK_Record(t)

SpecPool == InitPool /\ [][NextPool]_vars

\* the day's last requests arrive in one burst: all but n of the day's
\* requests used, all but n of the minute's among them, recorded at time t
LastOfDay(t, n) ==
    [ requests_per_minute |-> Repeat(t, RPM_LIMIT - n),
      requests_today      |-> RPD_LIMIT - n,
      tokens_per_minute   |-> Repeat(<<t, 1>>, RPM_LIMIT - n),
      last_reset          |-> Date(t),
      is_exhausted        |-> FALSE ]

\* a manager late in a day of heavy use, shortly before midnight
InitDay ==
    /\ now = StartClock
    /\ \E env \in Envs :
         /\ environ = env
         /\ Len(LoadAllKeys(env)) > 0
         /\ keys = [m \in ManagerIds |-> LoadAllKeys(env)]
         /\ key_usage = [m \in ManagerIds |->
                            [k \in {LoadAllKeys(env)[1]} |-> LastOfDay(StartClock, NearFull)]]
    /\ mgr = [t \in Threads |-> 1]
    /\ mode = [t \in Threads |-> "gak"]
    /\ left = MaxCalls
    /\ InitCallers

SpecDay == InitDay /\ [][NextPool]_vars

----------------------------------------------------------------------------
(* GeminiKeyManager.wait_for_available_key *)

Min(a, b) == IF a <= b THEN a ELSE b

\* the backoff without its cap
NextWait_NoCap(w) == w * 2

\* "wait_time = min(wait_time * 2, 10)"
NextWait(w) == Min(w * 2, MaxBackoff)

\* a return that skips the "if not api_key" test of the caller
AfterWait_SkipTest(t) == IF mode[t] = "wfk" THEN "idle" ELSE "pwg_call"

\* where a call of wait_for_available_key returns to
AfterWait(t) == IF mode[t] = "wfk" THEN "idle" ELSE "pwg_got_key"

\* wait_for_available_key(tokens, max): "start_time = time.time(); wait_time = 1"
WFK_Enter(t, tokens, max) ==
    /\ wtokens' = [wtokens EXCEPT ![t] = tokens]
    /\ max_wait' = [max_wait EXCEPT ![t] = max]
    /\ start_time' = [start_time EXCEPT ![t] = now]
    /\ wait_time' = [wait_time EXCEPT ![t] = 1]
    /\ polls' = [polls EXCEPT ![t] = 0]
    /\ wret' = [wret EXCEPT ![t] = None]
    /\ pc' = [pc EXCEPT ![t] = "wfk_loop"]
    /\ UNCHANGED wake

\* "return key" / "return None": the locals of the call are gone
WFK_Return(t, value) ==
    /\ wret' = [wret EXCEPT ![t] = value]
    /\ pc' = [pc EXCEPT ![t] = AfterWait(t)]
    /\ wtokens' = [wtokens EXCEPT ![t] = 0]
    /\ max_wait' = [max_wait EXCEPT ![t] = 0]
    /\ start_time' = [start_time EXCEPT ![t] = 0]
    /\ wait_time' = [wait_time EXCEPT ![t] = 0]
    /\ wake' = [wake EXCEPT ![t] = 0]
    /\ polls' = [polls EXCEPT ![t] = 0]

\* "while time.time() - start_time < max_wait": poll, or give up
WFK_Loop(t) ==
    /\ pc[t] = "wfk_loop"
    /\ IF now - start_time[t] < max_wait[t]
       THEN /\ GAK_Enter(t, wtokens[t])
            /\ UNCHANGED <<wfkVars, key_usage>>
       ELSE /\ WFK_Return(t, None)
            /\ UNCHANGED <<gakVars, key_usage, lock>>
    /\ UNCHANGED <<now, keys, fixedVars, mgr, aboveWfk, left>>

\* "if key: return key", else "time.sleep(wait_time)"
WFK_Polled(t) ==
    /\ pc[t] = "wfk_polled"
    /\ IF ret[t] # None
       THEN WFK_Return(t, ret[t])
       ELSE /\ wake' = [wake EXCEPT ![t] = now + wait_time[t]]
            /\ polls' = [polls EXCEPT ![t] = @ + 1]
            /\ pc' = [pc EXCEPT ![t] = "wfk_sleep"]
            /\ UNCHANGED <<wret, wtokens, max_wait, start_time, wait_time>>
    /\ UNCHANGED <<now, mgrVars, gakVars, fixedVars, mgr, aboveWfk, left>>

\* time.sleep has returned: "wait_time = min(wait_time * 2, 10)"
WFK_Wake(t) ==
    /\ pc[t] = "wfk_sleep"
    /\ now >= wake[t]
    /\ wait_time' = [wait_time EXCEPT ![t] = NextWait(@)]
    /\ pc' = [pc EXCEPT ![t] = "wfk_loop"]
    /\ UNCHANGED <<wtokens, max_wait, start_time, wake, polls, wret>>
    /\ UNCHANGED <<now, mgrVars, gakVars, fixedVars, mgr, aboveWfk, left>>

\* the clock reaches the end of the earliest running time.sleep (the steps
\* of the callers take no time on the scale of the sleeps)
Sleeping == {t \in Threads : pc[t] = "wfk_sleep" /\ wake[t] > now}

Advance ==
    /\ Sleeping # {}
    /\ \A t \in Threads : pc[t] = "idle" \/ t \in Sleeping
    /\ \E t \in Sleeping :
         /\ \A o \in Sleeping : wake[t] <= wake[o]
         /\ now' = wake[t]
    /\ UNCHANGED <<mgrVars, gakVars, outerVars, pc, left>>

\* a caller starts wait_for_available_key(estimated_tokens, max_wait)
CallWait(t) ==
    /\ pc[t] = "idle"
    /\ mode[t] = "wfk"
    /\ left > 0
    /\ \E tokens \in TokenChoices, max \in MaxWaits : WFK_Enter(t, tokens, max)
    /\ left' = left - 1
    /\ UNCHANGED <<now, mgrVars, gakVars, fixedVars, mgr, aboveWfk>>

\* a window filled to the limit by requests made `age` seconds ago, and a day
\* whose 1500 requests are used
WaitUsages(pool) ==
    {<<>>} \cup
    { [k \in {pool[1]} |-> u] :
        u \in { Burst(StartClock, RPM_LIMIT),
                Burst(StartClock - WindowSeconds \div 2, RPM_LIMIT),
                DayUsed(StartClock, 0) } }

InitWait ==
    /\ now = StartClock
    /\ \E env \in Envs :
         /\ environ = env
         /\ Len(LoadAllKeys(env)) > 0
         /\ keys = [m \in ManagerIds |-> LoadAllKeys(env)]
         /\ \E u \in WaitUsages(LoadAllKeys(env)) :
              key_usage = [m \in ManagerIds |-> u]
    /\ mgr = [t \in Threads |-> 1]
    /\ mode = [t \in Threads |-> IF t = 1 THEN "wfk" ELSE "gak"]
    /\ left = MaxWaitCalls
    /\ InitCallers

NextWaiting ==
    \/ Advance
    \/ \E t \in Threads : CallWait(t)
    \/ \E t \in Threads : WFK_Loop(t)
    \/ \E t \in Threads : WFK_Polled(t)
    \/ \E t \in Threads : WFK_Wake(t)
    \/ \E t \in Threads : CallGetKey(t)
    \/ \E t \in Threads : GAK_Scan(t)
    \/ \E t \in Threads : GAK_Record(t)

SpecWait == InitWait /\ [][NextWaiting]_vars

----------------------------------------------------------------------------
(* Texts and JSON values *)

\* A text is a sequence of one-character strings.
LowerLetters == <<"a", "b", "c", "d", "e", "f", "g", "h", "i", "j", "k", "l", "m", "n", "o", "p", "q", "r", "s", "t", "u", "v", "w", "x", "y", "z">>
UpperLetters == <<"A", "B", "C", "D", "E", "F", "G", "H", "I", "J", "K", "L", "M", "N", "O", "P", "Q", "R", "S", "T", "U", "V", "W", "X", "Y", "Z">>
DigitChars == <<"0", "1", "2", "3", "4", "5", "6", "7", "8", "9">>

Range(s) == {s[i] : i \in 1..Len(s)}

IsLower(c) == c \in Range(LowerLetters)
IsUpper(c) == c \in Range(UpperLetters)
IsLetter(c) == IsLower(c) \/ IsUpper(c)
IsDigit(c) == c \in Range(DigitChars)
\* \w of the re module, for the characters of the model
IsWord(c) == IsLetter(c) \/ IsDigit(c) \/ c = "_"
\* \s, and what str.strip removes
IsSpace(c) == c \in {" ", "\n", "\t"}

\* str.lower, one character
LowerChar(c) ==
    IF IsUpper(c)
    THEN LowerLetters[CHOOSE i \in 1..Len(UpperLetters) : UpperLetters[i] = c]
    ELSE c

\* str.lower
Lower(s) == [i \in 1..Len(s) |-> LowerChar(s[i])]

\* s[i:], with i counted from 1
From(s, i) == SubSeq(s, i, Len(s))

\* s.startswith(p, i - 1)
StartsAt(s, p, i) ==
    /\ i >= 1
    /\ i + Len(p) - 1 <= Len(s)
    /\ SubSeq(s, i, i + Len(p) - 1) = p

\* "p in s"
Contains(s, p) == \E i \in 1..(Len(s) + 1) : StartsAt(s, p, i)

\* str.strip
Strip(s) ==
    LET keep == {i \in 1..Len(s) : ~IsSpace(s[i])}
    IN  IF keep = {} THEN <<>>
        ELSE SubSeq(s, CHOOSE i \in keep : \A j \in keep : i <= j,
                       CHOOSE i \in keep : \A j \in keep : i >= j)

\* the decimal digit of a digit character, and back
DigitValue(c) == (CHOOSE i \in 1..10 : DigitChars[i] = c) - 1
DigitChar(n) == DigitChars[n + 1]

RECURSIVE IntValue(_)
\* int(s) for a text of digits
IntValue(s) ==
    IF s = <<>> THEN 0
    ELSE 10 * IntValue(SubSeq(s, 1, Len(s) - 1)) + DigitValue(s[Len(s)])

RECURSIVE IntText(_)
\* str(n) for n >= 0
IntText(n) ==
    IF n < 10 THEN <<DigitChar(n)>>
    ELSE Append(IntText(n \div 10), DigitChar(n % 10))

\* The values json.loads produces, and the Python values built from them.
JNull == [type |-> "null"]
JBool(b) == [type |-> "bool", bool |-> b]
JInt(n) == [type |-> "int", int |-> n]
JStr(chars) == [type |-> "str", chars |-> chars]
JList(items) == [type |-> "list", items |-> items]
JObj(fields) == [type |-> "dict", fields |-> fields]

\* an exception on its way up
Raise(exc) == [type |-> "raise", exc |-> exc]
Raises(v) == v.type = "raise"

\* bool(v)
Truthy(v) ==
    CASE v.type = "null" -> FALSE
      [] v.type = "bool" -> v.bool
      [] v.type = "int"  -> v.int # 0
      [] v.type = "str"  -> v.chars # <<>>
      [] v.type = "list" -> v.items # <<>>
      [] v.type = "dict" -> DOMAIN v.fields # {}

\* dict.get(key, default)
GetOr(o, key, default) ==
    IF key \in DOMAIN o.fields THEN o.fields[key] ELSE default

\* dict.get(key)
Get(o, key) == GetOr(o, key, JNull)

\* the keys an object of the model can carry, in the order they are written
ResponseKeys ==
    << "name", "email", "phone", "linkedin", "github",
       "skills", "total_experience_years", "ug_education", "pg_education", "work_experience",
       "degree", "college", "year", "hobbies", "title", "company" >>

----------------------------------------------------------------------------
(* Helper functions for text processing *)

\* the mail domains of email_fixes
FixedDomains ==
    { <<"g", "m", "a", "i", "l">>,
      <<"y", "a", "h", "o", "o">>,
      <<"h", "o", "t", "m", "a", "i", "l">>,
      <<"o", "u", "t", "l", "o", "o", "k">>,
      <<"i", "c", "l", "o", "u", "d">> }

\* the length of the match of "@<dom>\.c(?:om)?(?!\w)" (ignoring case) at the
\* start of s, or 0
DomainMatch(s, dom) ==
    LET head == <<"@">> \o dom \o <<".", "c">>
        n == Len(head)
    IN  IF ~StartsAt(Lower(s), head, 1) THEN 0
        ELSE IF StartsAt(Lower(s), <<"o", "m">>, n + 1)
                /\ (Len(s) = n + 2 \/ ~IsWord(s[n + 3]))
        THEN n + 2
        ELSE IF Len(s) = n \/ ~IsWord(s[n + 1])
        THEN n
        ELSE 0

RECURSIVE FixDomain(_, _)
\* re.sub(pattern, '@<dom>.com', text, flags=re.IGNORECASE)
FixDomain(s, dom) ==
    IF s = <<>> THEN <<>>
    ELSE IF DomainMatch(s, dom) > 0
    THEN <<"@">> \o dom \o <<".", "c", "o", "m">>
            \o FixDomain(From(s, DomainMatch(s, dom) + 1), dom)
    ELSE <<Head(s)>> \o FixDomain(Tail(s), dom)

\* the five substitutions of email_fixes, in their order
FixDomains(s) ==
    FixDomain(FixDomain(FixDomain(FixDomain(FixDomain(s,
        <<"g", "m", "a", "i", "l">>), <<"y", "a", "h", "o", "o">>), <<"h", "o", "t", "m", "a", "i", "l">>),
        <<"o", "u", "t", "l", "o", "o", "k">>), <<"i", "c", "l", "o", "u", "d">>)

\* text.replace('|', 'I')
FixPipes(s) == [i \in 1..Len(s) |-> IF s[i] = "|" THEN "I" ELSE s[i]]

\* re.sub(r'(?<=[a-zA-Z])<from>(?=[a-zA-Z])', '<to>', text)
FixBetweenLetters(s, from, to) ==
    [i \in 1..Len(s) |->
        IF /\ s[i] = from
           /\ i > 1 /\ IsLetter(s[i - 1])
           /\ i < Len(s) /\ IsLetter(s[i + 1])
        THEN to ELSE s[i]]

\* fix_ocr_artifacts(text), text a str
FixOcrArtifacts(s) ==
    IF s = <<>> THEN s
    ELSE FixBetweenLetters(FixBetweenLetters(FixPipes(FixDomains(s)),
                                             "0", "O"), "1", "l")

\* [a-zA-Z0-9._%+-] and [a-zA-Z0-9.-]
IsLocalChar(c) == IsLetter(c) \/ IsDigit(c) \/ c \in {".", "_", "%", "+", "-"}
IsDomainChar(c) == IsLetter(c) \/ IsDigit(c) \/ c \in {".", "-"}


\* the {2,} of the final label
TldMin == 2

\* the whole of s is [a-zA-Z0-9._%+-]+@[a-zA-Z0-9.-]+\.[a-zA-Z]{2,}
EmailShape(s) ==
    \E a, d \in 1..Len(s) :
        /\ 1 < a /\ a + 1 < d /\ d + TldMin <= Len(s)
        /\ s[a] = "@" /\ s[d] = "."
        /\ \A i \in 1..(a - 1) : IsLocalChar(s[i])
        /\ \A i \in (a + 1)..(d - 1) : IsDomainChar(s[i])
        /\ \A i \in (d + 1)..Len(s) : IsLetter(s[i])

\* re.match(email_pattern, email): "$" also matches before a final newline
EmailMatch(s) ==
    \/ EmailShape(s)
    \/ /\ s # <<>>
       /\ s[Len(s)] = "\n"
       /\ EmailShape(SubSeq(s, 1, Len(s) - 1))

\* validate_email(email)
ValidateEmail(v) ==
    IF ~Truthy(v) THEN JNull
    ELSE IF v.type # "str" THEN Raise("TypeError")
    ELSE IF EmailMatch(FixOcrArtifacts(v.chars))
    THEN JStr(Lower(FixOcrArtifacts(v.chars)))
    ELSE JNull

\* len(re.sub(r'[^\d+]', '', phone).replace('+', ''))
DigitCount(s) == Cardinality({i \in 1..Len(s) : IsDigit(s[i])})

MinPhoneDigits == 10
MaxPhoneDigits == 15

\* validate_phone(phone)
ValidatePhone(v) ==
    IF ~Truthy(v) THEN JNull
    ELSE IF v.type # "str" THEN Raise("TypeError")
    ELSE IF MinPhoneDigits <= DigitCount(v.chars)
            /\ DigitCount(v.chars) <= MaxPhoneDigits
    THEN v
    ELSE JNull

----------------------------------------------------------------------------
(* str() of the values of a response *)

\* the keys of the objects of the model, as texts
KeyText ==
    [ name |-> <<"n", "a", "m", "e">>,
      email |-> <<"e", "m", "a", "i", "l">>,
      phone |-> <<"p", "h", "o", "n", "e">>,
      linkedin |-> <<"l", "i", "n", "k", "e", "d", "i", "n">>,
      github |-> <<"g", "i", "t", "h", "u", "b">>,
      skills |-> <<"s", "k", "i", "l", "l", "s">>,
      total_experience_years |-> <<"t", "o", "t", "a", "l", "_", "e", "x", "p", "e", "r", "i", "e", "n", "c", "e", "_", "y", "e", "a", "r", "s">>,
      ug_education |-> <<"u", "g", "_", "e", "d", "u", "c", "a", "t", "i", "o", "n">>,
      pg_education |-> <<"p", "g", "_", "e", "d", "u", "c", "a", "t", "i", "o", "n">>,
      work_experience |-> <<"w", "o", "r", "k", "_", "e", "x", "p", "e", "r", "i", "e", "n", "c", "e">>,
      degree |-> <<"d", "e", "g", "r", "e", "e">>,
      college |-> <<"c", "o", "l", "l", "e", "g", "e">>,
      year |-> <<"y", "e", "a", "r">>,
      hobbies |-> <<"h", "o", "b", "b", "i", "e", "s">>,
      title |-> <<"t", "i", "t", "l", "e">>,
      company |-> <<"c", "o", "m", "p", "a", "n", "y">> ]

RECURSIVE Join(_, _)
\* sep.join(texts)
Join(texts, sep) ==
    IF texts = <<>> THEN <<>>
    ELSE IF Len(texts) = 1 THEN texts[1]
    ELSE texts[1] \o sep \o Join(Tail(texts), sep)

\* the keys of a dict in the order of the response
KeyOrder(fields) ==
    CHOOSE order \in [1..Cardinality(DOMAIN fields) -> DOMAIN fields] :
        /\ \A i, j \in DOMAIN order : i # j => order[i] # order[j]
        /\ \A i, j \in DOMAIN order :
              i < j => \E a, b \in 1..Len(ResponseKeys) :
                           /\ ResponseKeys[a] = order[i]
                           /\ ResponseKeys[b] = order[j]
                           /\ a < b

RECURSIVE Repr(_)
\* repr(v); a text is quoted with ' (the texts of the model hold no quote,
\* backslash or control character but the final newline of an address)
Repr(v) ==
    CASE v.type = "null" -> <<"N", "o", "n", "e">>
      [] v.type = "bool" -> IF v.bool THEN <<"T", "r", "u", "e">> ELSE <<"F", "a", "l", "s", "e">>
      [] v.type = "int"  -> IntText(v.int)
      [] v.type = "str"  -> <<"'">> \o v.chars \o <<"'">>
      [] v.type = "list" ->
            <<"[">> \o Join([i \in 1..Len(v.items) |-> Repr(v.items[i])],
                            <<",", " ">>) \o <<"]">>
      [] v.type = "dict" ->
            LET order == KeyOrder(v.fields)
            IN  <<"{">> \o Join([i \in 1..Len(order) |->
                                   <<"'">> \o KeyText[order[i]] \o <<"'", ":", " ">>
                                       \o Repr(v.fields[order[i]])],
                                <<",", " ">>) \o <<"}">>

\* str(v)
Str(v) == IF v.type = "str" THEN v.chars ELSE Repr(v)

----------------------------------------------------------------------------
(* normalize_experience *)

\* the least element of a non-empty set of integers
Least(set) == CHOOSE i \in set : \A j \in set : i <= j

\* the position after the longest run of characters satisfying Test(_) that
\* starts at i
RunEnd(s, i, Test(_)) ==
    Least({j \in i..(Len(s) + 1) : j = Len(s) + 1 \/ ~Test(s[j])})

\* the position after the match of \d+ at i (i itself when there is none)
DigitsEnd(s, i) == RunEnd(s, i, IsDigit)

\* the position after the match of \s* at i
SpacesEnd(s, i) == RunEnd(s, i, IsSpace)

\* the position after the match of \d+(?:\.\d+)? at i (i when there is none)
NumberEnd(s, i) ==
    LET e == DigitsEnd(s, i)
    IN  IF e > i /\ e < Len(s) /\ s[e] = "." /\ IsDigit(s[e + 1])
        THEN DigitsEnd(s, e + 1)
        ELSE e

\* the number a match of \d+(?:\.\d+)? denotes: its digits without the point
\* and the count of those behind the point
Number(text) ==
    LET e == DigitsEnd(text, 1)
    IN  [ digits |-> SubSeq(text, 1, e - 1) \o SubSeq(text, e + 1, Len(text)),
          scale  |-> IF e > Len(text) THEN 0 ELSE Len(text) - e ]

\* digits before the point from which float() gives inf (the largest float
\* is about 1.8e308; the model draws no number of exactly 309 digits)
FloatDigits == 309

\* float(text) is inf: the digits before the point, leading zeros apart
IsInf(text) ==
    DigitsEnd(text, 1) - RunEnd(text, 1, LAMBDA c : c = "0") > FloatDigits

RECURSIVE Pow10(_)
Pow10(n) == IF n = 0 THEN 1 ELSE 10 * Pow10(n - 1)

RECURSIVE FloatText(_, _)
\* str(x) of the float x = num / 10^scale (shortest representation; the
\* numbers of the model have fewer than 10 digits and need no exponent)
FloatText(num, scale) ==
    IF scale = 0 THEN IntText(num) \o <<".", "0">>
    ELSE IF scale > 1 /\ num % 10 = 0 THEN FloatText(num \div 10, scale - 1)
    ELSE LET frac == IntText(num % Pow10(scale))
         IN  IntText(num \div Pow10(scale)) \o <<".">>
                 \o [i \in 1..(scale - Len(frac)) |-> "0"] \o frac

\* round(num / 10^scale / 12, 1), in tenths: the quotient is a tie only at
\* multiples of 0.25, which are exact floats, and round() takes them to the
\* even neighbour
RoundTwelfth(num, scale) ==
    LET den == 12 * Pow10(scale)
        q == (num * 10) \div den
        r == (num * 10) % den
    IN  IF 2 * r > den THEN q + 1
        ELSE IF 2 * r = den THEN q + (q % 2)
        ELSE q

Inf == <<"i", "n", "f">>

\* the matches of the four patterns at position i of s: the positions that
\* delimit their groups, or the empty tuple
PlusAt(s, i) ==
    LET e == NumberEnd(s, i)
        p == SpacesEnd(s, e)
    IN  IF e > i /\ p <= Len(s) /\ s[p] = "+" THEN <<i, e>> ELSE <<>>

YearsAt(s, i) ==
    LET e == NumberEnd(s, i)
        y == SpacesEnd(s, e)
    IN  IF e > i /\ StartsAt(s, <<"y", "e", "a", "r">>, y) THEN <<i, e, y + 4>> ELSE <<>>

MonthsAt(s, i) ==
    LET e == NumberEnd(s, i)
        m == SpacesEnd(s, e)
    IN  IF e > i /\ StartsAt(s, <<"m", "o", "n", "t", "h">>, m) THEN <<i, e>> ELSE <<>>

YearsMonthsAt(s, i) ==
    LET y == YearsAt(s, i)
        k == IF y[3] <= Len(s) /\ s[y[3]] = "s" THEN y[3] + 1 ELSE y[3]
        d == SpacesEnd(s, k)
        e == DigitsEnd(s, d)
    IN  IF y # <<>> /\ e > d /\ StartsAt(s, <<"m", "o", "n", "t", "h">>, SpacesEnd(s, e))
        THEN <<y[1], y[2], d, e>>
        ELSE <<>>

\* re.search: the match at the leftmost position that has one, or <<>>
Search(s, At(_, _)) ==
    LET hits == {i \in 1..Len(s) : At(s, i) # <<>>}
    IN  IF hits = {} THEN <<>> ELSE At(s, Least(hits))

\* str(float(text)) for the text of a number
FloatOf(text) ==
    IF IsInf(text) THEN Inf
    ELSE FloatText(IntValue(Number(text).digits), Number(text).scale)

\* str(float(years) + round(float(months) / 12, 1))
YearsPlusMonths(years, months) ==
    IF IsInf(years) \/ IsInf(months) THEN Inf
    ELSE LET y == Number(years)
             t == RoundTwelfth(IntValue(months), 0)
         IN  IF y.scale = 0
             THEN FloatText(IntValue(y.digits) * 10 + t, 1)
             ELSE FloatText(IntValue(y.digits) + t * Pow10(y.scale - 1), y.scale)

\* "if value == int(value): return str(int(value)) else: return str(value)"
PlainNumber(text) ==
    LET n == Number(text)
        value == IntValue(n.digits)
    IN  IF IsInf(text) THEN Raise("OverflowError")
        ELSE IF value % Pow10(n.scale) = 0
        THEN JStr(IntText(value \div Pow10(n.scale)))
        ELSE JStr(FloatText(value, n.scale))

\* the one element of a singleton: Only({F(x) : x \in {e}}) is F(e), with e
\* evaluated once
Only(set) == CHOOSE x \in set : TRUE

\* "months = float(...); years = round(months / 12, 1); return str(years)"
MonthsOnly(text) ==
    IF IsInf(text) THEN Inf
    ELSE FloatText(RoundTwelfth(IntValue(Number(text).digits), Number(text).scale), 1)

\* the branches of normalize_experience for the text exp_str and the matches
\* of its four re.search calls
Branches(s, plus, ym, mo, yr) ==
    IF s = <<>> \/ s \in {<<"n", "u", "l", "l">>, <<"n", "o", "n", "e">>} THEN JNull
    ELSE IF Contains(s, <<"+">>)
    THEN IF plus # <<>>
         THEN JStr(SubSeq(s, plus[1], plus[2] - 1) \o <<"+">>)
         ELSE JNull
    ELSE IF ym # <<>>
    THEN JStr(Only({YearsPlusMonths(years, months) :
                        years \in {SubSeq(s, ym[1], ym[2] - 1)},
                        months \in {SubSeq(s, ym[3], ym[4] - 1)}}))
    ELSE IF mo # <<>>
    THEN JStr(Only({MonthsOnly(text) : text \in {SubSeq(s, mo[1], mo[2] - 1)}}))
    ELSE IF yr # <<>>
    THEN JStr(Only({FloatOf(text) : text \in {SubSeq(s, yr[1], yr[2] - 1)}}))
    ELSE IF s # <<>> /\ NumberEnd(s, 1) = Len(s) + 1
    THEN PlainNumber(s)
    ELSE JNull

\* the text str(exp_value).strip().lower() through the branches
NormalizeText(s) ==
    Only({Branches(s, plus, ym, mo, yr) :
            plus \in {Search(s, PlusAt)}, ym \in {Search(s, YearsMonthsAt)},
            mo \in {Search(s, MonthsAt)}, yr \in {Search(s, YearsAt)}})

\* normalize_experience(exp_value)
NormalizeExperience(v) ==
    IF ~Truthy(v) THEN JNull
    ELSE Only({NormalizeText(s) : s \in {Lower(Strip(Str(v)))}})

----------------------------------------------------------------------------
(* The response of the service and _parse_json_response *)

\* A response text, cut into pieces: a code-fence marker (three backquotes),
\* the word json, a JSON document, and any other text that is no JSON.
Fence == [tok |-> "fence"]
Tag == [tok |-> "json"]
Prose == [tok |-> "prose"]
Body(v) == [tok |-> "body", value |-> v]

IsFence(x) == x = Fence

\* positions of the tokens of r satisfying Test(_)
Where(r, Test(_)) == {i \in 1..Len(r) : Test(r[i])}

\* text.split(fence)[0]
UpToFence(r) ==
    IF Where(r, IsFence) = {} THEN r
    ELSE SubSeq(r, 1, Least(Where(r, IsFence)) - 1)

\* the positions where a fence is followed by the word json
JsonFences(r) == {i \in 1..(Len(r) - 1) : r[i] = Fence /\ r[i + 1] = Tag}

\* a response handed to json.loads as it came
StripFence_Absent(r) == r

\* "Clean JSON response": the two split chains
StripFence(r) ==
    IF JsonFences(r) # {}
    THEN UpToFence(From(r, Least(JsonFences(r)) + 2))
    ELSE IF Where(r, IsFence) # {}
    THEN UpToFence(From(r, Least(Where(r, IsFence)) + 1))
    ELSE r

\* json.loads(json_text.strip())
Loads(r) ==
    IF Len(r) = 1 /\ r[1].tok = "body" THEN r[1].value
    ELSE Raise("JSONDecodeError")

\* a filter that looks at the degree only
IsDiplomaEntry_DegreeOnly(degree, college) ==
    Truthy(degree) /\ Contains(Lower(Str(degree)), <<"d", "i", "p", "l", "o", "m", "a">>)

\* is_diploma_entry(degree, college)
IsDiplomaEntry(degree, college) ==
    LET degree_str == IF Truthy(degree) THEN Lower(Str(degree)) ELSE <<>>
        college_str == IF Truthy(college) THEN Lower(Str(college)) ELSE <<>>
    IN  IF ~Truthy(degree) /\ ~Truthy(college) THEN FALSE
        ELSE \/ Contains(degree_str, <<"d", "i", "p", "l", "o", "m", "a">>)
             \/ Contains(college_str, <<"d", "i", "p", "l", "o", "m", "a">>)
             \/ Contains(college_str, <<"p", "o", "l", "y", "t", "e", "c", "h", "n", "i", "c">>)

\* "Handle UG education with diploma filtering" (and PG): degree, college, year
Education(edu) ==
    IF Truthy(edu) /\ edu.type = "dict"
          /\ ~IsDiplomaEntry(Get(edu, "degree"), Get(edu, "college"))
    THEN <<Get(edu, "degree"), Get(edu, "college"), Get(edu, "year")>>
    ELSE <<JNull, JNull, JNull>>

\* the body of the try block of _parse_json_response for a parsed dict,
\* exceptions of the validators not yet looked at
BuildResult(o) ==
    LET ug == Education(GetOr(o, "ug_education", JObj(<<>>)))
        pg == Education(GetOr(o, "pg_education", JObj(<<>>)))
    IN  [ name |-> Get(o, "name"),
          email |-> ValidateEmail(Get(o, "email")),
          phone |-> ValidatePhone(Get(o, "phone")),
          linkedin |-> Get(o, "linkedin"),
          github |-> Get(o, "github"),
          skills |-> GetOr(o, "skills", JList(<<>>)),
          total_experience_years |->
              NormalizeExperience(Get(o, "total_experience_years")),
          ug_degree |-> ug[1], ug_college |-> ug[2], ug_year |-> ug[3],
          pg_degree |-> pg[1], pg_college |-> pg[2], pg_year |-> pg[3],
          work_experience |-> GetOr(o, "work_experience", JList(<<>>)) ]

\* _parse_json_response(json_text): the record, or None when json.loads,
\* parsed.get or a validator raises ("except Exception: return None")
ParseJsonResponse(r) ==
    Only({ IF Raises(loaded) THEN Nothing
           ELSE IF loaded.type # "dict" THEN Nothing
           ELSE Only({ IF \E f \in DOMAIN built : Raises(built[f]) THEN Nothing
                       ELSE <<built>> :
                       built \in {BuildResult(loaded)} }) :
           loaded \in {Loads(StripFence(r))} })

\* An object with every key of the prompt's schema, and the response the
\* service gives for a resume it reads well.
FullObject ==
    JObj([ name |-> JStr(<<"A", "n", "n", " ", "L", "e", "e">>),
           email |-> JStr(<<"A", "n", "n", "@", "x", ".", "i", "o">>),
           phone |-> JStr(<<"+", "1", " ", "5", "5", "5", " ", "1", "2", "3", " ", "4", "5", "6", "7">>),
           linkedin |-> JStr(<<"i", "n", "/", "a", "n", "n">>),
           github |-> JStr(<<"g", "h", "/", "a", "n", "n">>),
           skills |-> JList(<<JStr(<<"s", "q", "l">>)>>),
           total_experience_years |-> JStr(<<"4", "+">>),
           ug_education |-> JObj([degree |-> JStr(<<"B", "S", "c">>),
                                  college |-> JStr(<<"M", "I", "T">>),
                                  year |-> JInt(2020)]),
           pg_education |-> JObj([degree |-> JStr(<<"M", "S", "c">>),
                                  college |-> JStr(<<"I", "I", "T">>),
                                  year |-> JInt(2022)]),
           work_experience |-> JList(<<JObj([title |-> JStr(<<"d", "e", "v">>),
                                             company |-> JStr(<<"A", "c", "m", "e">>)])>>) ])

\* the object with the value of one key replaced, and with keys left out
With(key, v) == JObj([k \in DOMAIN FullObject.fields \cup {key} |->
                        IF k = key THEN v ELSE FullObject.fields[k]])
Without(gone) == JObj([k \in DOMAIN FullObject.fields \ gone |->
                         FullObject.fields[k]])

\* a response in a fence with the json tag
Fenced(v) == <<Fence, Tag, Body(v), Fence>>

\* the object of the spec's tolerant-parsing example: no github key, and a
\* key the schema does not know
Tolerant ==
    JObj([k \in (DOMAIN FullObject.fields \ {"github"}) \cup {"hobbies"} |->
                 IF k = "hobbies" THEN JList(<<JStr(<<"c", "h", "e", "s", "s">>)>>) ELSE FullObject.fields[k]])

\* The responses of the service, by name: a fenced object with a name only,
\* a text that is no JSON, and the responses the normalizer is studied on
\* (shape_: fences and missing keys; nojson_: texts json.loads refuses;
\* type_: one key of the wrong type; email_, phone_, edu_, exp_: values of
\* the validated, filtered and normalized keys).
Replies ==
    [ valid     |-> Fenced(JObj([name |-> JStr(<<"A">>)])),
      malformed |-> <<Prose>>,
      shape_01 |-> Fenced(Tolerant),
      shape_02 |-> <<Fence, Body(Tolerant), Fence>>,
      shape_03 |-> <<Prose, Fence, Tag, Body(Tolerant), Fence, Prose>>,
      shape_04 |-> <<Prose, Fence, Body(Tolerant), Fence, Prose>>,
      shape_05 |-> <<Body(Tolerant)>>,
      shape_06 |-> <<Fence, Tag, Body(Tolerant)>>,
      shape_07 |-> Fenced(Without({"skills", "work_experience", "github"})),
      shape_08 |-> Fenced(Without({"ug_education", "pg_education"})),
      shape_09 |-> Fenced(JObj(<<>>)),
      shape_10 |-> Fenced(FullObject),
      nojson_01 |-> <<Fence, Tag, Prose, Fence>>,
      nojson_02 |-> <<Prose, Body(FullObject)>>,
      nojson_03 |-> <<Body(FullObject), Prose>>,
      nojson_04 |-> <<Fence, Prose, Body(FullObject), Fence>>,
      nojson_05 |-> <<Fence, Fence, Body(FullObject)>>,
      nojson_06 |-> <<>>,
      nojson_07 |-> <<Fence, Tag, Fence, Body(FullObject)>>,
      type_01 |-> Fenced(With("name", JInt(7))),
      type_02 |-> Fenced(With("name", JBool(TRUE))),
      type_03 |-> Fenced(With("name", JList(<<JStr(<<"x">>)>>))),
      type_04 |-> Fenced(With("name", JObj([year |-> JInt(1)]))),
      type_05 |-> Fenced(With("email", JInt(7))),
      type_06 |-> Fenced(With("email", JBool(TRUE))),
      type_07 |-> Fenced(With("email", JList(<<JStr(<<"x">>)>>))),
      type_08 |-> Fenced(With("email", JObj([year |-> JInt(1)]))),
      type_09 |-> Fenced(With("phone", JInt(7))),
      type_10 |-> Fenced(With("phone", JBool(TRUE))),
      type_11 |-> Fenced(With("phone", JList(<<JStr(<<"x">>)>>))),
      type_12 |-> Fenced(With("phone", JObj([year |-> JInt(1)]))),
      type_13 |-> Fenced(With("linkedin", JInt(7))),
      type_14 |-> Fenced(With("linkedin", JBool(TRUE))),
      type_15 |-> Fenced(With("linkedin", JList(<<JStr(<<"x">>)>>))),
      type_16 |-> Fenced(With("linkedin", JObj([year |-> JInt(1)]))),
      type_17 |-> Fenced(With("github", JInt(7))),
      type_18 |-> Fenced(With("github", JBool(TRUE))),
      type_19 |-> Fenced(With("github", JList(<<JStr(<<"x">>)>>))),
      type_20 |-> Fenced(With("github", JObj([year |-> JInt(1)]))),
      type_21 |-> Fenced(With("total_experience_years", JInt(7))),
      type_22 |-> Fenced(With("total_experience_years", JBool(TRUE))),
      type_23 |-> Fenced(With("total_experience_years", JList(<<JStr(<<"x">>)>>))),
      type_24 |-> Fenced(With("total_experience_years", JObj([year |-> JInt(1)]))),
      type_25 |-> Fenced(With("skills", JStr(<<"s", "q", "l">>))),
      type_26 |-> Fenced(With("skills", JInt(7))),
      type_27 |-> Fenced(With("skills", JObj([title |-> JStr(<<"d", "e", "v">>)]))),
      type_28 |-> Fenced(With("work_experience", JStr(<<"s", "q", "l">>))),
      type_29 |-> Fenced(With("work_experience", JInt(7))),
      type_30 |-> Fenced(With("work_experience", JObj([title |-> JStr(<<"d", "e", "v">>)]))),
      type_31 |-> Fenced(With("ug_education", JStr(<<"B", "S", "c", " ", "a", "t", " ", "M", "I", "T">>))),
      type_32 |-> Fenced(With("ug_education", JList(<<JStr(<<"B", "S", "c">>)>>))),
      type_33 |-> Fenced(With("ug_education", JInt(7))),
      type_34 |-> Fenced(With("pg_education", JStr(<<"B", "S", "c", " ", "a", "t", " ", "M", "I", "T">>))),
      type_35 |-> Fenced(With("pg_education", JList(<<JStr(<<"B", "S", "c">>)>>))),
      type_36 |-> Fenced(With("pg_education", JInt(7))),
      type_37 |-> Fenced(JList(<<JStr(<<"x">>)>>)),
      type_38 |-> Fenced(JStr(<<"t", "e", "x", "t">>)),
      type_39 |-> Fenced(JInt(7)),
      type_40 |-> Fenced(JNull),
      email_01 |-> Fenced(With("email", JStr(<<"J", "O", "H", "N", "@", "E", "X", "A", "M", "P", "L", "E", ".", "C", "O", "M">>))),
      email_02 |-> Fenced(With("email", JStr(<<"A", "n", "n", "@", "x", ".", "i", "o", "\n">>))),
      email_03 |-> Fenced(With("email", JStr(<<"a", "@", "b", ".", "c">>))),
      email_04 |-> Fenced(With("email", JStr(<<"a", "0", "b", "@", "x", ".", "c", "o", "m">>))),
      email_05 |-> Fenced(With("email", JStr(<<"j", "|", "m", "@", "x", ".", "i", "o">>))),
      email_06 |-> Fenced(With("email", JStr(<<"j", "o", "h", "n", "@", "g", "m", "a", "i", "l", ".", "c">>))),
      email_07 |-> Fenced(With("email", JStr(<<"j", "o", "h", "n", "@", "g", "m", "a", "i", "l", ".", "c", "o">>))),
      email_08 |-> Fenced(With("email", JStr(<<"j", "o", "h", "n", "@", "G", "M", "A", "I", "L", ".", "C", "o", "m">>))),
      email_09 |-> Fenced(With("email", JStr(<<"n", "o", "t", "-", "a", "n", "-", "e", "m", "a", "i", "l">>))),
      email_10 |-> Fenced(With("email", JStr(<<"a", "@", "b", ".", "c", "o", " ">>))),
      email_11 |-> Fenced(With("email", JStr(<<" ", "a", "@", "b", ".", "c", "o">>))),
      email_12 |-> Fenced(With("email", JStr(<<"a", "@", "b", ".", ".", "c", "o">>))),
      email_13 |-> Fenced(With("email", JStr(<<"a", "@", ".", "c", "o">>))),
      email_14 |-> Fenced(With("email", JStr(<<"@", "b", ".", "c", "o">>))),
      email_15 |-> Fenced(With("email", JStr(<<"a", "@", "b", ".", "c", "0">>))),
      email_16 |-> Fenced(With("email", JStr(<<"a", "1", "b", "@", "c", "1", "d", ".", "i", "o">>))),
      email_17 |-> Fenced(With("email", JStr(<<"a", "@", "b", ".", "c", "o", ".", "u", "k">>))),
      email_18 |-> Fenced(With("email", JStr(<<"a", "_", "%", "+", "-", ".", "x", "@", "d", "-", "1", ".", "o", "r", "g">>))),
      email_19 |-> Fenced(With("email", JStr(<<>>))),
      email_20 |-> Fenced(With("email", JStr(<<"a", "@", "@", "b", ".", "c", "o">>))),
      email_21 |-> Fenced(With("email", JStr(<<"x", "@", "i", "c", "l", "o", "u", "d", ".", "c">>))),
      email_22 |-> Fenced(With("email", JStr(<<"a", " ", "b", "@", "c", ".", "d", "e">>))),
      phone_01 |-> Fenced(With("phone", JStr(<<"+", "1", " ", "(", "5", "5", "5", ")", " ", "1", "2", "3", "-", "4", "5", "6", "7">>))),
      phone_02 |-> Fenced(With("phone", JStr(<<"1", "2", "3", "4", "5">>))),
      phone_03 |-> Fenced(With("phone", JStr(<<"1", "2", "3", "4", "5", "6", "7", "8", "9", "0">>))),
      phone_04 |-> Fenced(With("phone", JStr(<<"1", "2", "3", "4", "5", "6", "7", "8", "9", "0", "1", "2", "3", "4", "5", "6">>))),
      phone_05 |-> Fenced(With("phone", JStr(<<"+", "+", "1", "2", "3", "4", "5", "6", "7", "8", "9", "0">>))),
      phone_06 |-> Fenced(With("phone", JStr(<<"1", "2", "3", "4", "5", "6", "7", "8", "9", "0", "1", "2", "3", "4", "5">>))),
      phone_07 |-> Fenced(With("phone", JStr(<<>>))),
      phone_08 |-> Fenced(With("phone", JStr(<<"c", "a", "l", "l", " ", "9", "8", "7", "6", "5", " ", "4", "3", "2", "1", "0", " ", "n", "o", "w">>))),
      phone_09 |-> Fenced(With("phone", JStr(<<"1", "2", "3", "4", "5", "6", "7", "8", "9">>))),
      edu_01 |-> Fenced(With("ug_education", JObj([degree |-> JStr(<<"D", "i", "p", "l", "o", "m", "a", " ", "i", "n", " ", "E", "n", "g", "i", "n", "e", "e", "r", "i", "n", "g">>), college |-> JStr(<<"M", "I", "T">>), year |-> JInt(2019)]))),
      edu_02 |-> Fenced(With("ug_education", JObj([degree |-> JStr(<<"D", "I", "P", "L", "O", "M", "A">>), college |-> JNull, year |-> JInt(2019)]))),
      edu_03 |-> Fenced(With("ug_education", JObj([degree |-> JStr(<<"B", "S", "c">>), college |-> JStr(<<"G", "o", "v", "t", " ", "P", "o", "l", "y", "t", "e", "c", "h", "n", "i", "c">>), year |-> JInt(2019)]))),
      edu_04 |-> Fenced(With("ug_education", JObj([degree |-> JStr(<<"B", "S", "c">>), college |-> JStr(<<"P", "O", "L", "Y", "T", "E", "C", "H", "N", "I", "C", " ", "o", "f", " ", "P", "u", "n", "e">>), year |-> JInt(2019)]))),
      edu_05 |-> Fenced(With("ug_education", JObj([degree |-> JStr(<<"B", "E">>), college |-> JStr(<<"I", "n", "s", "t", "i", "t", "u", "t", "e", " ", "o", "f", " ", "D", "i", "p", "l", "o", "m", "a", " ", "S", "t", "u", "d", "i", "e", "s">>), year |-> JInt(2019)]))),
      edu_06 |-> Fenced(With("ug_education", JObj([degree |-> JNull, college |-> JStr(<<"C", "i", "t", "y", " ", "P", "o", "l", "y", "t", "e", "c", "h", "n", "i", "c">>), year |-> JInt(2019)]))),
      edu_07 |-> Fenced(With("ug_education", JObj([degree |-> JStr(<<"P", "o", "l", "y", "t", "e", "c", "h", "n", "i", "c", " ", "s", "t", "u", "d", "i", "e", "s">>), college |-> JStr(<<"M", "I", "T">>), year |-> JInt(2019)]))),
      edu_08 |-> Fenced(With("ug_education", JObj([degree |-> JStr(<<"B", "T", "e", "c", "h">>), college |-> JStr(<<"I", "I", "T">>), year |-> JInt(2019)]))),
      edu_09 |-> Fenced(With("ug_education", JObj([degree |-> JStr(<<"B", "T", "e", "c", "h">>), college |-> JStr(<<"I", "I", "T">>)]))),
      edu_10 |-> Fenced(With("ug_education", JObj([degree |-> JNull, college |-> JNull, year |-> JInt(2019)]))),
      edu_11 |-> Fenced(With("ug_education", JObj([year |-> JInt(2019)]))),
      edu_12 |-> Fenced(With("ug_education", JObj([degree |-> JStr(<<"P", "G", " ", "D", "i", "p", "l", "o", "m", "a">>), college |-> JStr(<<"I", "I", "M">>), year |-> JInt(2021)]))),
      edu_13 |-> Fenced(With("ug_education", JObj([degree |-> JList(<<JStr(<<"D", "i", "p", "l", "o", "m", "a">>)>>), college |-> JStr(<<"M", "I", "T">>), year |-> JInt(2019)]))),
      edu_14 |-> Fenced(With("ug_education", JObj([degree |-> JStr(<<"B", "S", "c">>), college |-> JObj([name |-> JStr(<<"P", "o", "l", "y", "t", "e", "c", "h", "n", "i", "c">>)]), year |-> JInt(2019)]))),
      edu_15 |-> Fenced(With("ug_education", JObj([degree |-> JStr(<<"d", "i", "p", "l", " ", "o", "m", "a">>), college |-> JStr(<<"p", "o", "l", "y", " ", "t", "e", "c", "h", "n", "i", "c">>), year |-> JInt(2019)]))),
      edu_16 |-> Fenced(With("ug_education", JObj(<<>>))),
      edu_17 |-> Fenced(With("pg_education", JObj([degree |-> JStr(<<"D", "i", "p", "l", "o", "m", "a", " ", "i", "n", " ", "E", "n", "g", "i", "n", "e", "e", "r", "i", "n", "g">>), college |-> JStr(<<"M", "I", "T">>), year |-> JInt(2019)]))),
      edu_18 |-> Fenced(With("pg_education", JObj([degree |-> JStr(<<"D", "I", "P", "L", "O", "M", "A">>), college |-> JNull, year |-> JInt(2019)]))),
      edu_19 |-> Fenced(With("pg_education", JObj([degree |-> JStr(<<"B", "S", "c">>), college |-> JStr(<<"G", "o", "v", "t", " ", "P", "o", "l", "y", "t", "e", "c", "h", "n", "i", "c">>), year |-> JInt(2019)]))),
      edu_20 |-> Fenced(With("pg_education", JObj([degree |-> JStr(<<"B", "S", "c">>), college |-> JStr(<<"P", "O", "L", "Y", "T", "E", "C", "H", "N", "I", "C", " ", "o", "f", " ", "P", "u", "n", "e">>), year |-> JInt(2019)]))),
      edu_21 |-> Fenced(With("pg_education", JObj([degree |-> JStr(<<"B", "E">>), college |-> JStr(<<"I", "n", "s", "t", "i", "t", "u", "t", "e", " ", "o", "f", " ", "D", "i", "p", "l", "o", "m", "a", " ", "S", "t", "u", "d", "i", "e", "s">>), year |-> JInt(2019)]))),
      edu_22 |-> Fenced(With("pg_education", JObj([degree |-> JNull, college |-> JStr(<<"C", "i", "t", "y", " ", "P", "o", "l", "y", "t", "e", "c", "h", "n", "i", "c">>), year |-> JInt(2019)]))),
      edu_23 |-> Fenced(With("pg_education", JObj([degree |-> JStr(<<"P", "o", "l", "y", "t", "e", "c", "h", "n", "i", "c", " ", "s", "t", "u", "d", "i", "e", "s">>), college |-> JStr(<<"M", "I", "T">>), year |-> JInt(2019)]))),
      edu_24 |-> Fenced(With("pg_education", JObj([degree |-> JStr(<<"B", "T", "e", "c", "h">>), college |-> JStr(<<"I", "I", "T">>), year |-> JInt(2019)]))),
      edu_25 |-> Fenced(With("pg_education", JObj([degree |-> JStr(<<"B", "T", "e", "c", "h">>), college |-> JStr(<<"I", "I", "T">>)]))),
      edu_26 |-> Fenced(With("pg_education", JObj([degree |-> JNull, college |-> JNull, year |-> JInt(2019)]))),
      edu_27 |-> Fenced(With("pg_education", JObj([year |-> JInt(2019)]))),
      edu_28 |-> Fenced(With("pg_education", JObj([degree |-> JStr(<<"P", "G", " ", "D", "i", "p", "l", "o", "m", "a">>), college |-> JStr(<<"I", "I", "M">>), year |-> JInt(2021)]))),
      edu_29 |-> Fenced(With("pg_education", JObj([degree |-> JList(<<JStr(<<"D", "i", "p", "l", "o", "m", "a">>)>>), college |-> JStr(<<"M", "I", "T">>), year |-> JInt(2019)]))),
      edu_30 |-> Fenced(With("pg_education", JObj([degree |-> JStr(<<"B", "S", "c">>), college |-> JObj([name |-> JStr(<<"P", "o", "l", "y", "t", "e", "c", "h", "n", "i", "c">>)]), year |-> JInt(2019)]))),
      edu_31 |-> Fenced(With("pg_education", JObj([degree |-> JStr(<<"d", "i", "p", "l", " ", "o", "m", "a">>), college |-> JStr(<<"p", "o", "l", "y", " ", "t", "e", "c", "h", "n", "i", "c">>), year |-> JInt(2019)]))),
      edu_32 |-> Fenced(With("pg_education", JObj(<<>>))),
      edu_33 |-> Fenced(JObj([ug_education |-> JObj([degree |-> JStr(<<"D", "i", "p", "l", "o", "m", "a", " ", "i", "n", " ", "E", "n", "g", "i", "n", "e", "e", "r", "i", "n", "g">>), college |-> JStr(<<"M", "I", "T">>), year |-> JInt(2019)]), pg_education |-> JObj([degree |-> JStr(<<"B", "T", "e", "c", "h">>), college |-> JStr(<<"I", "I", "T">>), year |-> JInt(2019)])])),
      edu_34 |-> Fenced(JObj([ug_education |-> JObj([degree |-> JStr(<<"B", "T", "e", "c", "h">>), college |-> JStr(<<"I", "I", "T">>), year |-> JInt(2019)]), pg_education |-> JObj([degree |-> JStr(<<"P", "G", " ", "D", "i", "p", "l", "o", "m", "a">>), college |-> JStr(<<"I", "I", "M">>), year |-> JInt(2021)])])),
      exp_01 |-> Fenced(With("total_experience_years", JStr(<<"4", "+">>))),
      exp_02 |-> Fenced(With("total_experience_years", JStr(<<"2", " ", "y", "e", "a", "r", "s", " ", "6", " ", "m", "o", "n", "t", "h", "s">>))),
      exp_03 |-> Fenced(With("total_experience_years", JStr(<<"1", "8", " ", "m", "o", "n", "t", "h", "s">>))),
      exp_04 |-> Fenced(With("total_experience_years", JStr(<<"6">>))),
      exp_05 |-> Fenced(With("total_experience_years", JStr(<<"4", ".", "5">>))),
      exp_06 |-> Fenced(With("total_experience_years", JStr(<<"6", ".", "0">>))),
      exp_07 |-> Fenced(With("total_experience_years", JStr(<<>>))),
      exp_08 |-> Fenced(With("total_experience_years", JStr(<<"n", "o", "n", "e">>))),
      exp_09 |-> Fenced(With("total_experience_years", JStr(<<"N", "o", "n", "e">>))),
      exp_10 |-> Fenced(With("total_experience_years", JStr(<<"n", "u", "l", "l">>))),
      exp_11 |-> Fenced(With("total_experience_years", JStr(<<"a", "b", "c">>))),
      exp_12 |-> Fenced(With("total_experience_years", JStr(<<"3", " ", "y", "e", "a", "r", "s">>))),
      exp_13 |-> Fenced(With("total_experience_years", JStr(<<"2", " ", "y", "e", "a", "r", "s", " ", "3", " ", "m", "o", "n", "t", "h", "s">>))),
      exp_14 |-> Fenced(With("total_experience_years", JStr(Repeat("9", 310)))),
      exp_15 |-> Fenced(With("total_experience_years", JStr(<<"0">>))),
      exp_16 |-> Fenced(With("total_experience_years", JStr(<<"4", " ", "+">>))),
      exp_17 |-> Fenced(With("total_experience_years", JStr(<<" ", " ", "7", " ", " ">>))),
      exp_18 |-> Fenced(With("total_experience_years", JStr(<<"1", " ", "y", "e", "a", "r">>))),
      exp_19 |-> Fenced(With("total_experience_years", JStr(<<"1", "0", "+", " ", "y", "e", "a", "r", "s">>))),
      exp_20 |-> Fenced(With("total_experience_years", JStr(<<"2", " ", "y", "r", "s">>))),
      exp_21 |-> Fenced(With("total_experience_years", JStr(<<"6", ".">>))),
      exp_22 |-> Fenced(With("total_experience_years", JStr(<<"2", " ", "y", "e", "a", "r", "s", " ", "a", "n", "d", " ", "6", " ", "m", "o", "n", "t", "h", "s">>))),
      exp_23 |-> Fenced(With("total_experience_years", JStr(<<"3", "0", " ", "m", "o", "n", "t", "h", "s">>))),
      exp_24 |-> Fenced(With("total_experience_years", JStr(<<"2", ".", "5", "+">>))),
      exp_25 |-> Fenced(With("total_experience_years", JStr(<<"4", ".", "5", "0">>))),
      exp_26 |-> Fenced(With("total_experience_years", JStr(<<"0", "0", "7">>))),
      exp_27 |-> Fenced(With("total_experience_years", JStr(<<"4", ".", "2", "5">>))),
      exp_28 |-> Fenced(With("total_experience_years", JStr(<<"1", "2", " ", "m", "o", "n", "t", "h", "s">>))),
      exp_29 |-> Fenced(With("total_experience_years", JStr(<<"3", " ", "y", "e", "a", "r", "s", " ", "1", "5", " ", "m", "o", "n", "t", "h", "s">>))),
      exp_30 |-> Fenced(With("total_experience_years", JStr(<<"1", ".", "5", " ", "y", "e", "a", "r", "s">>))),
      exp_31 |-> Fenced(With("total_experience_years", JStr(<<"+">>))),
      exp_32 |-> Fenced(With("total_experience_years", JStr(<<"2", " ", "Y", "E", "A", "R", "S", " ", "6", " ", "M", "O", "N", "T", "H", "S">>))),
      exp_33 |-> Fenced(With("total_experience_years", JStr(Repeat("9", 310) \o <<" ", "y", "e", "a", "r", "s">>))),
      exp_34 |-> Fenced(With("total_experience_years", JNull)),
      exp_35 |-> Fenced(With("total_experience_years", JInt(6))),
      exp_36 |-> Fenced(With("total_experience_years", JInt(0))),
      exp_37 |-> Fenced(Without({"total_experience_years"})) ]

----------------------------------------------------------------------------
(* SimpleResumeParser *)

\* estimate_tokens: int(word_count * 1.3)
EstimateTokens(words) == (words * 13) \div 10

\* The texts an extractor can produce, by trimmed length and word count
\* (an extractor that fails yields the empty text).
TextOf ==
    [ empty  |-> [chars |-> 0, words |-> 0],
      short  |-> [chars |-> 9, words |-> 2],
      resume |-> [chars |-> 10, words |-> 2],
      huge   |-> [chars |-> 6000000, words |-> 1000000] ]

\* Path(filename).suffix.lower()
LowerCase(suffix) ==
    CASE suffix = ".TXT" -> ".txt"
      [] suffix = ".Pdf" -> ".pdf"
      [] OTHER -> suffix

\* a dispatch that also takes .xyz for a text file
SupportedExts_WithXyz ==
    {".pdf", ".docx", ".txt", ".png", ".jpg", ".jpeg", ".tiff", ".bmp", ".xyz"}

SupportedExts == {".pdf", ".docx", ".txt", ".png", ".jpg", ".jpeg", ".tiff", ".bmp"}

\* the "if ext == ... elif ..." chain of extract_text: the TextExtractor
\* method that is called (none in the "else: raise ValueError" branch)
Extractor(ext) ==
    CASE ext = ".pdf"  -> "extract_text_from_pdf_bytes"
      [] ext = ".docx" -> "extract_text_from_docx_bytes"
      [] ext = ".txt"  -> "extract_text_from_txt_bytes"
      [] ext \in {".png", ".jpg", ".jpeg", ".tiff", ".bmp"}
                       -> "extract_text_from_image_bytes"
      [] OTHER         -> None

\* The files of the model: name (stem, suffix), the text its extractor and
\* deduplicate_lines leave, what the service does with its prompt (it
\* raises, or it returns the response), the content hash, and what the
\* database does when asked to store its row.
Doc(stem, suffix, text, reply) ==
    [name |-> <<stem, suffix>>, text |-> text, reply |-> reply, hash |-> stem,
     store |-> "ok"]

Docs ==
    { Doc(1, ".xyz", "resume", "valid"),
      Doc(2, ".pdf", "empty", "valid"),
      Doc(3, ".TXT", "short", "valid"),
      Doc(4, ".txt", "resume", "valid"),
      Doc(5, ".docx", "resume", "malformed"),
      Doc(6, ".png", "resume", "raises"),
      Doc(7, ".txt", "huge", "valid") }

\* text-only data with an invented skill
EmptyData_Invented ==
    [ name |-> JNull, email |-> JNull, phone |-> JNull, linkedin |-> JNull,
      github |-> JNull, skills |-> JList(<<JStr(<<"s", "q", "l">>)>>),
      ug_degree |-> JNull, ug_college |-> JNull, ug_year |-> JNull,
      pg_degree |-> JNull, pg_college |-> JNull, pg_year |-> JNull,
      total_experience_years |-> JNull, work_experience |-> JList(<<>>) ]

\* the data process_resume returns without a pool
EmptyData ==
    [ name |-> JNull, email |-> JNull, phone |-> JNull, linkedin |-> JNull,
      github |-> JNull, skills |-> JList(<<>>),
      ug_degree |-> JNull, ug_college |-> JNull, ug_year |-> JNull,
      pg_degree |-> JNull, pg_college |-> JNull, pg_year |-> JNull,
      total_experience_years |-> JNull, work_experience |-> JList(<<>>) ]

\* _parse_json_response is a function of the response text alone: its value
\* on each response of the model
ParsedReplies == [r \in DOMAIN Replies |-> ParseJsonResponse(Replies[r])]

\* what parse_with_gemini gets for the file: an exception of
\* generate_content, or the value of _parse_json_response(response.text)
ParsedData(d) ==
    IF d.reply = "raises" THEN Nothing ELSE ParsedReplies[d.reply]

\* the messages of the exceptions and of the result
UnsupportedError(ext) == <<"Unsupported file type: ", ext>>
NoTextError == <<"No meaningful text extracted">>
ParseFailedError == <<"Failed to parse resume">>
NoKeyNote == <<"No API key - text extracted but not parsed">>

\* an "except" clause that lets ValueError through
Catches_NotValueError(exc) ==
    exc # NoTextError /\ exc[1] # "Unsupported file type: "

\* "except Exception as e" of process_resume
Catches(exc) == TRUE

\* where a call of process_resume returns to
AfterResume(t) == IF mode[t] = "resume" THEN "idle" ELSE "up_result"

\* process_resume(file_obj, filename): "result = {...}"
PR_Enter(t, d) ==
    /\ doc' = [doc EXCEPT ![t] = d]
    /\ result' = [result EXCEPT ![t] =
            [filename |-> d.name, success |-> FALSE, data |-> Nothing, error |-> Nothing]]
    /\ ran' = [ran EXCEPT ![t] = None]
    /\ raised' = [raised EXCEPT ![t] = Nothing]
    /\ parsed' = [parsed EXCEPT ![t] = Nothing]
    /\ used_key' = [used_key EXCEPT ![t] = None]
    /\ pc' = [pc EXCEPT ![t] = "pr_extract"]
    /\ UNCHANGED configured

\* an exception raised inside the try block of process_resume
PR_Except(t, exc) ==
    /\ IF Catches(exc)
       THEN /\ result' = [result EXCEPT ![t].error = exc]
            /\ UNCHANGED raised
       ELSE /\ raised' = [raised EXCEPT ![t] = exc]
            /\ UNCHANGED result
    /\ pc' = [pc EXCEPT ![t] = AfterResume(t)]

\* extract_text, the length check and the choice between parsing and the
\* text-only result
PR_Extract(t) ==
    /\ pc[t] = "pr_extract"
    /\ LET ext == LowerCase(doc[t].name[2])
           text == TextOf[doc[t].text]
       IN  IF ext \notin SupportedExts
           THEN /\ PR_Except(t, UnsupportedError(ext))
                /\ UNCHANGED ran
           ELSE /\ ran' = [ran EXCEPT ![t] = Extractor(ext)]
                /\ IF text.chars = 0 \/ text.chars < MinTextLength
                   THEN PR_Except(t, NoTextError)
                   ELSE IF keys[mgr[t]] # <<>>
                   THEN /\ pc' = [pc EXCEPT ![t] = "pwg_enter"]
                        /\ UNCHANGED <<result, raised>>
                   ELSE /\ result' = [result EXCEPT ![t].data = <<EmptyData>>,
                                                    ![t].success = TRUE,
                                                    ![t].error = NoKeyNote]
                        /\ pc' = [pc EXCEPT ![t] = AfterResume(t)]
                        /\ UNCHANGED raised
    /\ UNCHANGED <<doc, parsed, configured, used_key>>
    /\ UNCHANGED <<now, mgrVars, gakVars, fixedVars, mgr, wfkVars, upVars, left>>

\* parse_with_gemini up to "wait_for_available_key(estimated_tokens)"
PWG_Enter(t) ==
    /\ pc[t] = "pwg_enter"
    /\ IF keys[mgr[t]] = <<>>
       THEN /\ parsed' = [parsed EXCEPT ![t] = Nothing]
            /\ pc' = [pc EXCEPT ![t] = "pr_parsed"]
            /\ UNCHANGED wfkVars
       ELSE /\ WFK_Enter(t, EstimateTokens(PromptWords + TextOf[doc[t].text].words),
                         DefaultMaxWait)
            /\ UNCHANGED parsed
    /\ UNCHANGED <<doc, ran, result, raised, configured, used_key>>
    /\ UNCHANGED <<now, mgrVars, gakVars, fixedVars, mgr, upVars, left>>

\* "if not api_key: return None", else "genai.configure(api_key=api_key)"
PWG_GotKey(t) ==
    /\ pc[t] = "pwg_got_key"
    /\ IF wret[t] = None
       THEN /\ parsed' = [parsed EXCEPT ![t] = Nothing]
            /\ pc' = [pc EXCEPT ![t] = "pr_parsed"]
            /\ UNCHANGED configured
       ELSE /\ configured' = wret[t]
            /\ pc' = [pc EXCEPT ![t] = "pwg_call"]
            /\ UNCHANGED parsed
    /\ UNCHANGED <<doc, ran, result, raised, used_key>>
    /\ UNCHANGED <<now, mgrVars, gakVars, fixedVars, mgr, wfkVars, upVars, left>>

\* "model.generate_content(prompt)" and "_parse_json_response(response.text)";
\* an exception of the call and an unparseable response both give None
PWG_Call(t) ==
    /\ pc[t] = "pwg_call"
    /\ used_key' = [used_key EXCEPT ![t] = configured]
    /\ parsed' = [parsed EXCEPT ![t] =
            ParsedData(doc[t])]
    /\ pc' = [pc EXCEPT ![t] = "pr_parsed"]
    /\ UNCHANGED <<doc, ran, result, raised, configured>>
    /\ UNCHANGED <<now, mgrVars, gakVars, fixedVars, mgr, wfkVars, upVars, left>>

\* "if parsed_data: ... else: result['error'] = 'Failed to parse resume'"
PR_Parsed(t) ==
    /\ pc[t] = "pr_parsed"
    /\ IF parsed[t] # Nothing
       THEN result' = [result EXCEPT ![t].data = parsed[t], ![t].success = TRUE]
       ELSE result' = [result EXCEPT ![t].error = ParseFailedError]
    /\ pc' = [pc EXCEPT ![t] = AfterResume(t)]
    /\ UNCHANGED <<doc, ran, raised, parsed, configured, used_key>>
    /\ UNCHANGED <<now, mgrVars, gakVars, fixedVars, mgr, wfkVars, upVars, left>>

\* a caller starts process_resume(file_obj, filename)
CallResume(t) ==
    /\ pc[t] = "idle"
    /\ mode[t] = "resume"
    /\ left > 0
    /\ \E d \in Docs : PR_Enter(t, d)
    /\ left' = left - 1
    /\ UNCHANGED <<now, mgrVars, gakVars, fixedVars, mgr, wfkVars, upVars>>

\* The pool of the parser: empty, free, at its per-minute limit, one request
\* short of it.
InitResume ==
    /\ now = StartClock
    /\ \E env \in Envs :
         /\ environ = env
         /\ keys = [m \in ManagerIds |-> LoadAllKeys(env)]
         /\ \E u \in ({<<>>} \cup
                      {[k \in {"k1"} |-> Burst(StartClock, n)] :
                          n \in {RPM_LIMIT, RPM_LIMIT - 1}}) :
              /\ DOMAIN u \subseteq {LoadAllKeys(env)[i] : i \in 1..Len(LoadAllKeys(env))}
              /\ key_usage = [m \in ManagerIds |-> u]
    /\ mgr = [t \in Threads |-> 1]
    /\ mode = [t \in Threads |-> "resume"]
    /\ left = MaxResumes
    /\ InitCallers

NextResume ==
    \/ Advance
    \/ \E t \in Threads : CallResume(t)
    \/ \E t \in Threads : PR_Extract(t)
    \/ \E t \in Threads : PWG_Enter(t)
    \/ \E t \in Threads : WFK_Loop(t)
    \/ \E t \in Threads : GAK_Scan(t)
    \/ \E t \in Threads : GAK_Record(t)
    \/ \E t \in Threads : WFK_Polled(t)
    \/ \E t \in Threads : WFK_Wake(t)
    \/ \E t \in Threads : PWG_GotKey(t)
    \/ \E t \in Threads : PWG_Call(t)
    \/ \E t \in Threads : PR_Parsed(t)

SpecResume == InitResume /\ [][NextResume]_vars

(***************************************************************************)
(* The normalizer: process_resume on text files whose prompt the service   *)
(* answers with each of the responses of Replies.  One request thread, a   *)
(* pool of two fresh keys, and a clock that stands still: every call gets  *)
(* its credential at the first poll.                                       *)
(***************************************************************************)
NormalizeThread == 1

NormalizeDocs == {Doc(8, ".txt", "resume", r) : r \in DOMAIN Replies}

CallNormalize(t) ==
    /\ pc[t] = "idle"
    /\ mode[t] = "resume"
    /\ left > 0
    /\ \E d \in NormalizeDocs : PR_Enter(t, d)
    /\ left' = left - 1
    /\ UNCHANGED <<now, mgrVars, gakVars, fixedVars, mgr, wfkVars, upVars>>

InitNormalize ==
    /\ now = StartClock
    /\ environ = [numbered |-> <<"k1", "k2">>, single |-> None]
    /\ keys = [m \in ManagerIds |-> LoadAllKeys(environ)]
    /\ key_usage = [m \in ManagerIds |-> <<>>]
    /\ mgr = [t \in Threads |-> 1]
    /\ mode = [t \in Threads |-> IF t = NormalizeThread THEN "resume" ELSE "gak"]
    /\ left = MaxResumes
    /\ InitCallers

NextNormalize ==
    \/ \E t \in Threads : CallNormalize(t)
    \/ \E t \in Threads : PR_Extract(t)
    \/ \E t \in Threads : PWG_Enter(t)
    \/ \E t \in Threads : WFK_Loop(t)
    \/ \E t \in Threads : GAK_Scan(t)
    \/ \E t \in Threads : GAK_Record(t)
    \/ \E t \in Threads : WFK_Polled(t)
    \/ \E t \in Threads : PWG_GotKey(t)
    \/ \E t \in Threads : PWG_Call(t)
    \/ \E t \in Threads : PR_Parsed(t)

SpecNormalize == InitNormalize /\ [][NextNormalize]_vars

----------------------------------------------------------------------------
(***************************************************************************)
(* The text helpers on their own: deduplicate_lines and fix_ocr_artifacts  *)
(* are functions of their arguments; a call draws its arguments from the   *)
(* bounded sets below, and the helper is then applied to its own value.    *)
(***************************************************************************)
MaxLines == 3

\* the matching blocks <<i, j, k>> of a and b: a[i .. i+k-1] = b[j .. j+k-1]
Blocks(a, b) ==
    {x \in (1..Len(a)) \X (1..Len(b)) \X (1..Len(a)) :
        /\ x[1] + x[3] - 1 <= Len(a)
        /\ x[2] + x[3] - 1 <= Len(b)
        /\ SubSeq(a, x[1], x[1] + x[3] - 1) = SubSeq(b, x[2], x[2] + x[3] - 1)}

\* SequenceMatcher.find_longest_match: the longest block, of those the one
\* that starts earliest in a, and of those the one that starts earliest in b
Longest(blocks) ==
    CHOOSE x \in blocks : \A y \in blocks :
        \/ x[3] > y[3]
        \/ x[3] = y[3] /\ x[1] < y[1]
        \/ x[3] = y[3] /\ x[1] = y[1] /\ x[2] <= y[2]

RECURSIVE Matches(_, _)
\* the characters in SequenceMatcher(None, a, b).get_matching_blocks(): the
\* longest block, then the same to its left and to its right (the lines of
\* the model are shorter than the 200 characters from which difflib treats
\* popular characters as junk)
Matches(a, b) ==
    IF Blocks(a, b) = {} THEN 0
    ELSE Only({ m[3] + Matches(SubSeq(a, 1, m[1] - 1), SubSeq(b, 1, m[2] - 1))
                     + Matches(SubSeq(a, m[1] + m[3], Len(a)),
                               SubSeq(b, m[2] + m[3], Len(b))) :
                m \in {Longest(Blocks(a, b))} })

\* a comparison that lets a similarity equal to the threshold through
Similar_Above(line, unique_line, threshold) ==
    2 * Matches(Lower(line), Lower(unique_line)) * threshold[2]
        > threshold[1] * (Len(line) + Len(unique_line))

\* "similarity >= similarity_threshold", similarity being 2.0 * matches /
\* (len(a) + len(b)) and the threshold the fraction threshold[1] / threshold[2]
Similar(line, unique_line, threshold) ==
    2 * Matches(Lower(line), Lower(unique_line)) * threshold[2]
        >= threshold[1] * (Len(line) + Len(unique_line))

\* a strip that takes one blank at most from each end
StripLine_Once(s) ==
    LET a == IF s # <<>> /\ IsSpace(s[1]) THEN 2 ELSE 1
        b == IF Len(s) >= a /\ IsSpace(s[Len(s)]) THEN Len(s) - 1 ELSE Len(s)
    IN  SubSeq(s, a, b)

\* "line = line.strip()"
StripLine(s) == Strip(s)

RECURSIVE UniqueLines(_, _, _)
\* the loop of deduplicate_lines over the lines still to come
UniqueLines(lines, unique_lines, threshold) ==
    IF lines = <<>> THEN unique_lines
    ELSE Only({ IF line = <<>> THEN UniqueLines(Tail(lines), unique_lines, threshold)
                ELSE IF \E u \in 1..Len(unique_lines) :
                           Similar(line, unique_lines[u], threshold)
                THEN UniqueLines(Tail(lines), unique_lines, threshold)
                ELSE UniqueLines(Tail(lines), Append(unique_lines, line), threshold) :
                line \in {StripLine(Head(lines))} })

\* deduplicate_lines(lines, similarity_threshold)
DeduplicateLines(lines, threshold) == UniqueLines(lines, <<>>, threshold)

DefaultThreshold == <<85, 100>>

\* the thresholds of the model, as fractions: the default 0.85, 2/3, 1/2, 1
\* and 0
Thresholds == {DefaultThreshold, <<2, 3>>, <<1, 2>>, <<1, 1>>, <<0, 1>>}

\* the short lines of the model: empty, blank, padded, and letters in both
\* cases whose similarities are 0, 1/2, 2/3, 4/5 and 1
ShortLines ==
    { <<>>, <<" ">>, <<"a">>, <<"a", "b">>, <<" ", " ", "a", "b", " ">>, <<"A", "B">>,
      <<"b", "a">>, <<"a", "b", "c">>, <<"\t", "c", " ", "\n">> }

\* lines of 20 and 21 characters whose similarity to the first is exactly
\* 34/40 = 0.85 and 34/41
LongLines ==
    << Repeat("a", 17) \o <<"b", "b", "b">>,
       Repeat("a", 17) \o <<"c", "c", "c">>,
       Repeat("A", 17) \o <<"c", "c", "c", "c">> >>

\* the sequences of lines of the model
LineLists ==
    UNION {[1..n -> ShortLines] : n \in 0..MaxLines}
        \cup {<<LongLines[1], LongLines[i]>> : i \in 2..3}
        \cup {<<LongLines[1], <<"a">>, LongLines[3], LongLines[2]>>}

\* the texts fix_ocr_artifacts is called on: an address at each of the five
\* domains, in either case, with each ending
Endings ==
    { <<".", "c">>, <<".", "c", "o">>, <<".", "c", "o", "m">>, <<".", "C">>,
      <<".", "C", "O">>, <<".", "C", "o", "m">>, <<".", "c", " ", "x">>,
      <<".", "c", "o", ",">>, <<".", "c", "x">>, <<".", "c", "o", ".", "u", "k">>,
      <<".", "c", "o", "m", "x">>, <<".", "n", "e", "t">> }

Upper(s) ==
    [i \in 1..Len(s) |->
        IF IsLower(s[i])
        THEN UpperLetters[CHOOSE k \in 1..Len(LowerLetters) : LowerLetters[k] = s[i]]
        ELSE s[i]]

OcrTexts ==
    {<<"j", "o", "h", "n", "@">> \o dom \o end :
        dom \in FixedDomains \cup {Upper(d) : d \in FixedDomains}
                \cup {<<"x", "m", "a", "i", "l">>},
        end \in Endings}
    \cup {<<>>, <<"a", "0", "b", "|", "c", "1", "d">>}

\* a call of deduplicate_lines
CallDeduplicateLines ==
    /\ targ = Nothing
    /\ \E lines \in LineLists, threshold \in Thresholds :
         /\ targ' = [fn |-> "deduplicate_lines", lines |-> lines,
                     threshold |-> threshold]
         /\ tval' = <<DeduplicateLines(lines, threshold)>>
    /\ UNCHANGED tagain
    /\ UNCHANGED <<now, mgrVars, gakVars, environ, mode, mgr, wfkVars, aboveWfk, pc, left>>

\* deduplicate_lines called on the value it returned, same threshold
AgainDeduplicateLines ==
    /\ targ # Nothing
    /\ targ.fn = "deduplicate_lines"
    /\ tagain = Nothing
    /\ tagain' = <<DeduplicateLines(tval[1], targ.threshold)>>
    /\ UNCHANGED <<targ, tval>>
    /\ UNCHANGED <<now, mgrVars, gakVars, environ, mode, mgr, wfkVars, aboveWfk, pc, left>>

\* a call of fix_ocr_artifacts
CallFixOcrArtifacts ==
    /\ targ = Nothing
    /\ \E text \in OcrTexts :
         /\ targ' = [fn |-> "fix_ocr_artifacts", text |-> text]
         /\ tval' = <<FixOcrArtifacts(text)>>
    /\ UNCHANGED tagain
    /\ UNCHANGED <<now, mgrVars, gakVars, environ, mode, mgr, wfkVars, aboveWfk, pc, left>>

\* fix_ocr_artifacts called on the value it returned
AgainFixOcrArtifacts ==
    /\ targ # Nothing
    /\ targ.fn = "fix_ocr_artifacts"
    /\ tagain = Nothing
    /\ tagain' = <<FixOcrArtifacts(tval[1])>>
    /\ UNCHANGED <<targ, tval>>
    /\ UNCHANGED <<now, mgrVars, gakVars, environ, mode, mgr, wfkVars, aboveWfk, pc, left>>

InitText ==
    /\ now = StartClock
    /\ environ = [numbered |-> <<None, None>>, single |-> None]
    /\ keys = [m \in ManagerIds |-> <<>>]
    /\ key_usage = [m \in ManagerIds |-> <<>>]
    /\ mgr = [t \in Threads |-> 1]
    /\ mode = [t \in Threads |-> "text"]
    /\ left = 0
    /\ InitCallers

NextText ==
    \/ CallDeduplicateLines
    \/ AgainDeduplicateLines
    \/ CallFixOcrArtifacts
    \/ AgainFixOcrArtifacts

SpecText == InitText /\ [][NextText]_vars


----------------------------------------------------------------------------
(* upload_resumes *)

DuplicateMessage == <<"Duplicate resume detected. Already uploaded.">>
StoredMessage == <<"Parsed and stored successfully">>

\* str(e) of the exception Resume.objects.create raises
StoreError == <<"database error">>

\* a file whose row the database refuses
Refused(d) == [d EXCEPT !.store = "raises"]

\* a loop that gives up the rest of the batch
NextFiles_Abort(fs) == <<>>

\* "for uploaded_file in files": the files after the current one
NextFiles(fs) == Tail(fs)

\* Resume.objects.filter(content_hash=content_hash).first()
Existing(hash) == \E row \in BagToSet(db) : row.content_hash = hash

\* "parser = SimpleResumeParser()": a new GeminiKeyManager, its keys loaded
\* from the environment, its usage table empty
NewManager(m) ==
    /\ keys' = [keys EXCEPT ![m] = LoadAllKeys(environ)]
    /\ key_usage' = [key_usage EXCEPT ![m] = <<>>]
    /\ lock' = [lock EXCEPT ![m] = NoThread]

\* upload_resumes(request) up to the loop over the files
UP_Enter(t, batch, m) ==
    /\ files' = [files EXCEPT ![t] = batch]
    /\ results' = [results EXCEPT ![t] = <<>>]
    /\ IF batch = <<>>
       THEN /\ UNCHANGED <<mgrVars, mgr>>
            /\ pc' = [pc EXCEPT ![t] = "idle"]
       ELSE /\ NewManager(m)
            /\ mgr' = [mgr EXCEPT ![t] = m]
            /\ pc' = [pc EXCEPT ![t] = "up_loop"]

\* "for uploaded_file in files": the duplicate check, then process_resume;
\* after the last file the response is returned
UP_Loop(t) ==
    /\ pc[t] = "up_loop"
    /\ IF files[t] = <<>>
       THEN /\ pc' = [pc EXCEPT ![t] = "idle"]
            /\ UNCHANGED <<prVars, files, results>>
       ELSE IF Existing(Head(files[t]).hash)
       THEN /\ results' = [results EXCEPT ![t] = Append(@,
                    [filename |-> Head(files[t]).name, success |-> FALSE,
                     message |-> DuplicateMessage])]
            /\ files' = [files EXCEPT ![t] = NextFiles(@)]
            /\ UNCHANGED <<prVars, pc>>
       ELSE /\ PR_Enter(t, Head(files[t]))
            /\ UNCHANGED <<files, results>>
    /\ UNCHANGED <<now, mgrVars, gakVars, fixedVars, mgr, wfkVars, db, left>>

\* process_resume has returned: store the row or report the failure; an
\* exception of Resume.objects.create is reported by the except clause
UP_Result(t) ==
    /\ pc[t] = "up_result"
    /\ LET f == Head(files[t])
           r == result[t]
       IN  IF r.success /\ r.data # Nothing /\ f.store = "raises"
           THEN /\ results' = [results EXCEPT ![t] = Append(@,
                        [filename |-> f.name, success |-> FALSE,
                         message |-> StoreError])]
                /\ UNCHANGED db
           ELSE IF r.success /\ r.data # Nothing
           THEN /\ db' = db (+) SetToBag({[filename |-> f.name,
                                             content_hash |-> f.hash,
                                             data |-> r.data[1]]})
                /\ results' = [results EXCEPT ![t] = Append(@,
                        [filename |-> f.name, success |-> TRUE,
                         message |-> StoredMessage])]
           ELSE /\ results' = [results EXCEPT ![t] = Append(@,
                        [filename |-> f.name, success |-> FALSE,
                         message |-> r.error])]
                /\ UNCHANGED db
    /\ files' = [files EXCEPT ![t] = NextFiles(@)]
    /\ pc' = [pc EXCEPT ![t] = "up_loop"]
    /\ UNCHANGED <<now, mgrVars, gakVars, fixedVars, mgr, wfkVars, prVars, left>>

\* the files of a request: UploadSize resumes the service parses, or a
\* batch with an unsupported file, a file uploaded twice, a row the database refuses and three failures
GoodBatch(r) ==
    [i \in 1..UploadSize |-> Doc(100 * r + i, ".pdf", "resume", "valid")]

MixedBatch ==
    << Doc(1, ".xyz", "resume", "valid"),
       Doc(4, ".txt", "resume", "valid"),
       Doc(4, ".txt", "resume", "valid"),
       Refused(Doc(8, ".pdf", "resume", "valid")),
       Doc(5, ".docx", "resume", "malformed"),
       Doc(3, ".TXT", "short", "valid"),
       Doc(7, ".txt", "huge", "valid"),
       Doc(9, ".jpg", "resume", "valid") >>

\* a request arrives
CallUpload(t) ==
    /\ pc[t] = "idle"
    /\ mode[t] = "upload"
    /\ left > 0
    /\ LET r == MaxUploads - left + 1
       IN  \E batch \in {GoodBatch(r), MixedBatch} : UP_Enter(t, batch, r)
    /\ left' = left - 1
    /\ UNCHANGED <<now, gakVars, fixedVars, wfkVars, prVars, db>>

InitUpload ==
    /\ now = StartClock
    /\ \E env \in Envs :
         /\ environ = env
    /\ keys = [m \in ManagerIds |-> <<>>]
    /\ key_usage = [m \in ManagerIds |-> <<>>]
    /\ mgr = [t \in Threads |-> 1]
    /\ mode = [t \in Threads |-> "upload"]
    /\ left = MaxUploads
    /\ InitCallers

NextUpload ==
    \/ Advance
    \/ \E t \in Threads : CallUpload(t)
    \/ \E t \in Threads : UP_Loop(t)
    \/ \E t \in Threads : PR_Extract(t)
    \/ \E t \in Threads : PWG_Enter(t)
    \/ \E t \in Threads : WFK_Loop(t)
    \/ \E t \in Threads : GAK_Scan(t)
    \/ \E t \in Threads : GAK_Record(t)
    \/ \E t \in Threads : WFK_Polled(t)
    \/ \E t \in Threads : WFK_Wake(t)
    \/ \E t \in Threads : PWG_GotKey(t)
    \/ \E t \in Threads : PWG_Call(t)
    \/ \E t \in Threads : PR_Parsed(t)
    \/ \E t \in Threads : UP_Result(t)

SpecUpload == InitUpload /\ [][NextUpload]_vars

----------------------------------------------------------------------------
(* What the claims observe: the raw state of a credential, read at the      *)
(* current clock, independently of the purge the manager applies.           *)

Managers == ManagerIds

LiveRequests(m, k) ==
    LET r == Usage(m, k).requests_per_minute
    IN  Cardinality({i \in 1..Len(r) : now - r[i] < WindowSeconds})

LiveTokens(m, k) ==
    SumTokens(SelectSeq(Usage(m, k).tokens_per_minute,
                        LAMBDA e : now - e[1] < WindowSeconds))

RolledOver(m, k) == Usage(m, k).last_reset # Date(now)

TodayCount(m, k) == IF RolledOver(m, k) THEN 0 ELSE Usage(m, k).requests_today

MarkedExhausted(m, k) == ~RolledOver(m, k) /\ Usage(m, k).is_exhausted

\* thread t takes the step
Stepped(t) == pc'[t] # pc[t] \/ idx'[t] # idx[t]

\* thread t examines the credential at its loop position in this step
ScanStep(t) ==
    /\ pc[t] = "gak_scan"
    /\ idx[t] <= Len(keys[mgr[t]])
    /\ Stepped(t)

\* thread t leaves the loop without a credential in this step
NoneStep(t) ==
    /\ pc[t] = "gak_scan"
    /\ idx[t] > Len(keys[mgr[t]])
    /\ Stepped(t)

\* thread t records usage and returns in this step
RecordStep(t) == pc[t] = "gak_record" /\ Stepped(t)

ScannedKey(t) == keys[mgr[t]][idx[t]]

----------------------------------------------------------------------------
(* C1 *)

\* C1: under any interleaving of get_available_key calls, the quota check and
\* the recording are one atomic step: a caller about to record still finds
\* the slot it checked free, and no credential ever holds more than
\* RPM_LIMIT requests younger than 60 seconds.
C1_AtomicCheckAndRecord ==
    \A m \in Managers :
        /\ \A k \in DOMAIN key_usage[m] : LiveRequests(m, k) <= RPM_LIMIT
        /\ \A t \in Threads :
             (mgr[t] = m /\ pc[t] = "gak_record")
                => LiveRequests(m, ScannedKey(t)) < RPM_LIMIT

\* one caller took the last slot of the first credential while the other,
\* calling concurrently, has been made to pass it over
C1_Witness ==
    \E t1, t2 \in Threads :
        /\ t1 # t2
        /\ ret[t1] = keys[1][1]
        /\ LiveRequests(1, keys[1][1]) = RPM_LIMIT
        /\ pc[t2] = "gak_scan"
        /\ idx[t2] = 2

----------------------------------------------------------------------------
(* C2 *)

\* C2: with a pool of one credential (its daily and token quotas not in the
\* way), a call returns the credential whenever fewer than 15 recorded
\* requests are younger than 60 seconds, and returns nothing while 15 are;
\* requests of 60 seconds or more no longer count.
C2_OneKeyStep(t) ==
    LET m == mgr[t] IN
    /\ (ScanStep(t) /\ Len(keys[m]) = 1) =>
          LET k == keys[m][1] IN
          /\ LiveRequests(m, k) >= RPM_LIMIT =>
                (pc'[t] = "gak_scan" /\ idx'[t] = 2)
          /\ ( /\ LiveRequests(m, k) < RPM_LIMIT
               /\ ~MarkedExhausted(m, k)
               /\ TodayCount(m, k) < RPD_LIMIT
               /\ LiveTokens(m, k) + est[t] <= TPM_LIMIT ) =>
                pc'[t] = "gak_record"
    /\ NoneStep(t) => (ret'[t] = None /\ pc'[t] = "idle")
    /\ RecordStep(t) => (ret'[t] = ScannedKey(t) /\ pc'[t] = "idle")

C2_PerMinuteWindow == [][\A t \in Threads : C2_OneKeyStep(t)]_vars

\* the single credential is about to be handed out for the 16th time that
\* day: the 15 requests of the full window have been purged
C2_Witness ==
    /\ Len(keys[1]) = 1
    /\ \E t \in Threads :
         /\ pc[t] = "gak_record"
         /\ Usage(1, keys[1][1]).requests_today = RPM_LIMIT
         /\ Usage(1, keys[1][1]).requests_per_minute = <<>>
         /\ ~RolledOver(1, keys[1][1])

----------------------------------------------------------------------------
(* C3 *)

\* C3: a credential with 1500 requests recorded on the current day is passed
\* over by every call of that day, whatever its per-minute window; the first
\* call that examines it after the date has changed resets the daily count
\* to zero and (the per-minute quotas permitting) returns it.
C3_DailyStep(t) ==
    ScanStep(t) =>
        LET m == mgr[t]
            k == ScannedKey(t)
        IN  /\ (Usage(m, k).requests_today >= RPD_LIMIT /\ ~RolledOver(m, k)) =>
                  /\ pc'[t] = "gak_scan"
                  /\ idx'[t] = idx[t] + 1
                  /\ key_usage'[m][k].requests_today = Usage(m, k).requests_today
            /\ ( /\ Usage(m, k).requests_today >= RPD_LIMIT
                 /\ RolledOver(m, k)
                 /\ LiveRequests(m, k) < RPM_LIMIT
                 /\ LiveTokens(m, k) + est[t] <= TPM_LIMIT ) =>
                  /\ pc'[t] = "gak_record"
                  /\ key_usage'[m][k].requests_today = 0
                  /\ ~key_usage'[m][k].is_exhausted

C3_DailyCap == [][\A t \in Threads : C3_DailyStep(t)]_vars

\* a caller examines, on the next day, a credential that was exhausted at
\* 1500 requests the day before
C3_Witness ==
    \E t \in Threads :
        /\ pc[t] = "gak_scan"
        /\ idx[t] = 1
        /\ Usage(1, keys[1][1]).requests_today = RPD_LIMIT
        /\ Usage(1, keys[1][1]).is_exhausted
        /\ RolledOver(1, keys[1][1])

----------------------------------------------------------------------------
(* C4 *)

\* C4: a credential that passes the exhausted, per-minute and daily checks is
\* skipped exactly when its tokens of the last 60 seconds plus
\* estimated_tokens exceed 1,000,000 (a sum of exactly 1,000,000 passes), and
\* the tokens recorded within 60 seconds never total more than 1,000,000.
C4_TokenStep(t) ==
    LET m == mgr[t] IN
    ( /\ ScanStep(t)
      /\ ~MarkedExhausted(m, ScannedKey(t))
      /\ LiveRequests(m, ScannedKey(t)) < RPM_LIMIT
      /\ TodayCount(m, ScannedKey(t)) < RPD_LIMIT ) =>
        /\ (pc'[t] = "gak_record")
              <=> (LiveTokens(m, ScannedKey(t)) + est[t] <= TPM_LIMIT)
        /\ (pc'[t] = "gak_scan" /\ idx'[t] = idx[t] + 1)
              <=> (LiveTokens(m, ScannedKey(t)) + est[t] > TPM_LIMIT)

C4_TokenQuota ==
    /\ [](\A m \in Managers : \A k \in DOMAIN key_usage[m] :
             LiveTokens(m, k) <= TPM_LIMIT)
    /\ [][\A t \in Threads : C4_TokenStep(t)]_vars

\* a request was granted that brought the window to exactly 1,000,000 tokens
C4_Witness ==
    \E t \in Threads :
        /\ ret[t] # None
        /\ LiveTokens(1, ret[t]) = TPM_LIMIT

----------------------------------------------------------------------------
(* C5 *)

\* the usage of credential j grows in this step
Grew(m, j) ==
    LET old == IF j \in DOMAIN key_usage[m] THEN key_usage[m][j] ELSE DefaultUsage(now)
        new == key_usage'[m][j]
    IN  \/ Len(new.requests_per_minute) > Len(old.requests_per_minute)
        \/ Len(new.tokens_per_minute) > Len(old.tokens_per_minute)
        \/ new.requests_today > old.requests_today

FailsACheck(m, k, tokens) ==
    \/ MarkedExhausted(m, k)
    \/ LiveRequests(m, k) >= RPM_LIMIT
    \/ TodayCount(m, k) >= RPD_LIMIT
    \/ LiveTokens(m, k) + tokens > TPM_LIMIT

\* C5: the scan starts at the first credential and moves past a credential
\* only if it fails a check at that moment; the call records exactly one
\* timestamp, one daily increment and one token entry, on the credential it
\* returns and on no other; a call that returns nothing records nothing.
C5_ScanStepOk(t) ==
    LET m == mgr[t] IN
    /\ (pc[t] = "idle" /\ pc'[t] = "gak_scan") => idx'[t] = 1
    /\ ScanStep(t) =>
          /\ \/ pc'[t] = "gak_scan" /\ idx'[t] = idx[t] + 1
                /\ FailsACheck(m, ScannedKey(t), est[t])
             \/ pc'[t] = "gak_record" /\ idx'[t] = idx[t]
                /\ ~FailsACheck(m, ScannedKey(t), est[t])
          /\ \A j \in DOMAIN key_usage'[m] : ~Grew(m, j)
    /\ NoneStep(t) => (ret'[t] = None /\ key_usage' = key_usage)
    /\ RecordStep(t) =>
          LET k == ScannedKey(t)
              old == Usage(m, k)
              new == key_usage'[m][k]
          IN  /\ ret'[t] = k
              /\ new.requests_per_minute = Append(old.requests_per_minute, now)
              /\ new.requests_today = old.requests_today + 1
              /\ new.tokens_per_minute = Append(old.tokens_per_minute, <<now, est[t]>>)
              /\ \A j \in DOMAIN key_usage'[m] :
                    j # k => (j \in DOMAIN key_usage[m]
                              /\ key_usage'[m][j] = key_usage[m][j])

C5_ScanOrderAndFrame ==
    [][ /\ \A t \in Threads : C5_ScanStepOk(t)
        /\ \A m \in Managers : \A j \in DOMAIN key_usage'[m] :
              Grew(m, j) => \E t \in Threads :
                              RecordStep(t) /\ mgr[t] = m /\ ScannedKey(t) = j ]_vars

\* the second credential was returned because the first one was at its
\* per-minute limit
C5_Witness ==
    \E t \in Threads :
        /\ Len(keys[1]) = 2
        /\ pc[t] = "idle"
        /\ ret[t] = keys[1][2]
        /\ LiveRequests(1, keys[1][1]) = RPM_LIMIT
        /\ Usage(1, keys[1][2]).requests_per_minute # <<>>

----------------------------------------------------------------------------
(* C6 *)

RECURSIVE HandedOut(_, _)
\* the requests of the last 60 seconds recorded for credential k by the
\* managers 1..m of the process
HandedOut(k, m) ==
    IF m = 0 THEN 0 ELSE LiveRequests(m, k) + HandedOut(k, m - 1)

\* C6: the usage state of a credential is shared by all upload requests of
\* the process, so that over all of them no credential is handed out more
\* than 15 times within 60 seconds.
C6_ProcessWideQuota ==
    \A k \in {"k1", "k2"} : HandedOut(k, MaxUploads) <= RPM_LIMIT

----------------------------------------------------------------------------
(* C7 *)

RECURSIVE Pow2(_)
Pow2(n) == IF n = 0 THEN 1 ELSE 2 * Pow2(n - 1)

InWait(t) == pc[t] \in {"wfk_loop", "wfk_polled", "wfk_sleep"}

\* thread t returns from wait_for_available_key in this step
WaitReturns(t) == InWait(t) /\ pc'[t] = AfterWait(t)

\* C7: after its n-th failed poll wait_for_available_key sleeps
\* min(2^(n-1), 10) seconds and polls again only when they have passed; it
\* returns the first credential a poll yields, polls as long as less than
\* max_wait has elapsed, and returns nothing only once max_wait has elapsed.
C7_WaitStep(t) ==
    /\ (pc[t] = "wfk_loop" /\ Stepped(t)) =>
          IF now - start_time[t] < max_wait[t]
          THEN pc'[t] = "gak_scan" /\ est'[t] = wtokens[t]
          ELSE WaitReturns(t) /\ wret'[t] = None
    /\ (pc[t] = "wfk_polled" /\ Stepped(t)) =>
          IF ret[t] # None
          THEN WaitReturns(t) /\ wret'[t] = ret[t]
          ELSE /\ pc'[t] = "wfk_sleep"
               /\ polls'[t] = polls[t] + 1
               /\ wake'[t] = now + wait_time[t]
    /\ (pc[t] = "wfk_sleep" /\ Stepped(t)) =>
          (now >= wake[t] /\ pc'[t] = "wfk_loop")

C7_Backoff ==
    /\ [](\A t \in Threads :
            pc[t] = "wfk_sleep" =>
                wait_time[t] = Min(Pow2(polls[t] - 1), MaxBackoff))
    /\ [][\A t \in Threads : C7_WaitStep(t)]_vars

\* the sixth failed poll: the sleep has reached its cap
C7_Witness ==
    \E t \in Threads :
        /\ pc[t] = "wfk_sleep"
        /\ polls[t] = 6
        /\ wait_time[t] = MaxBackoff
        /\ wake[t] = now + MaxBackoff

----------------------------------------------------------------------------
(* C8 *)

\* C8: wait_for_available_key returns no later than max_wait seconds after
\* it was called, the sleeps between its polls included.
C8_ReturnsWithinMaxWait ==
    [][\A t \in Threads :
          WaitReturns(t) => now' - start_time[t] <= max_wait[t]]_vars

----------------------------------------------------------------------------
(* C9 *)

\* a call of process_resume by t has returned
Returned(t) == pc[t] = "idle" /\ doc[t] # Nothing

\* C9: no exception leaves process_resume, and the result it returns has the
\* four fields filename, success, data and error, with filename the argument.
C9_NeverRaises ==
    \A t \in Threads :
        /\ raised[t] = Nothing
        /\ Returned(t) =>
              /\ DOMAIN result[t] = {"filename", "success", "data", "error"}
              /\ result[t].filename = doc[t].name
              /\ result[t].success \in BOOLEAN

\* one file was refused for its extension, another failed after the wait for
\* a credential ran out
C9_Witness ==
    \E t1, t2 \in Threads :
        /\ Returned(t1) /\ Returned(t2)
        /\ result[t1].error = UnsupportedError(".xyz")
        /\ result[t2].error = ParseFailedError
        /\ wret[t2] = None /\ used_key[t2] = None

----------------------------------------------------------------------------
(* C10 *)

\* the call of t reached the pool and no credential became available
QuotaFailed(t) ==
    /\ Returned(t)
    /\ keys[mgr[t]] # <<>>
    /\ LowerCase(doc[t].name[2]) \in SupportedExts
    /\ TextOf[doc[t].text].chars >= MinTextLength
    /\ wret[t] = None

\* the call of t reached the service, which raised or answered something
\* that cannot be parsed
ServiceFailed(t) ==
    /\ Returned(t)
    /\ used_key[t] # None
    /\ doc[t].reply \in {"raises", "malformed"}

\* C10: the error of a result that failed for want of a credential differs
\* from the error of a result that failed in the service call or in the
\* parsing of its response.
C10_QuotaErrorDistinct ==
    \A t1, t2 \in Threads :
        (QuotaFailed(t1) /\ ServiceFailed(t2))
            => result[t1].error # result[t2].error

----------------------------------------------------------------------------
(* C11 *)

\* the positions of a thread inside wait_for_available_key
WaitPcs == {"wfk_loop", "gak_scan", "gak_record", "wfk_polled", "wfk_sleep"}

\* extract_text accepted the file and the length check passed
TextAccepted(t) ==
    /\ LowerCase(doc[t].name[2]) \in SupportedExts
    /\ TextOf[doc[t].text].chars >= MinTextLength

Enters(t, p) == pc[t] # p /\ pc'[t] = p

C11_OrderStep(t) ==
    \* parsing starts only when extraction has completed
    /\ Enters(t, "pwg_enter") => pc[t] = "pr_extract" /\ TextAccepted(t)
    \* a credential is requested only from parse_with_gemini
    /\ (pc[t] \notin WaitPcs /\ pc'[t] \in WaitPcs) => pc[t] = "pwg_enter"
    \* a credential is returned by the step that records its usage
    /\ (ret[t] = None /\ ret'[t] # None)
           => /\ RecordStep(t)
              /\ \E k \in {ScannedKey(t)}, m \in {mgr[t]} :
                   /\ ret'[t] = k
                   /\ (Usage(m, k).requests_today)'
                          = Usage(m, k).requests_today + 1
    \* the wait returns the credential of its poll, or nothing
    /\ Enters(t, "pwg_got_key")
           => \/ pc[t] = "wfk_polled" /\ ret[t] # None /\ wret'[t] = ret[t]
              \/ pc[t] = "wfk_loop" /\ wret'[t] = None
    \* the service is reached only with a credential
    /\ Enters(t, "pwg_call") => pc[t] = "pwg_got_key" /\ wret[t] # None
    /\ (used_key'[t] # used_key[t] /\ used_key'[t] # None) => pc[t] = "pwg_call"
    \* a record exists only once the service has been called
    /\ (parsed[t] = Nothing /\ parsed'[t] # Nothing)
           => pc[t] = "pwg_call" /\ used_key'[t] # None

\* C11: in process_resume, extraction completes before a credential is
\* requested, the credential's usage is recorded before the service is called,
\* the service is not called when wait_for_available_key returned nothing, and
\* a normalized record exists only after the service call.
C11_StepOrder ==
    /\ [](\A t \in Threads : pc[t] = "pwg_call" => wret[t] # None)
    /\ [][\A t \in Threads : C11_OrderStep(t)]_vars

\* a resume went through extraction, acquisition, call and normalization,
\* while another one waited in vain and was not sent to the service
C11_Witness ==
    \E t1, t2 \in Threads :
        /\ pc[t1] = "pr_parsed" /\ used_key[t1] # None /\ parsed[t1] # Nothing
        /\ pc[t2] = "pr_parsed" /\ wret[t2] = None /\ used_key[t2] = None
        /\ TextAccepted(t2)

----------------------------------------------------------------------------
(* C12 *)

\* thread t works on a file of a supported type whose text has at least 10
\* characters, for a parser without credentials
TextOnly(t) ==
    /\ doc[t] # Nothing
    /\ keys[mgr[t]] = <<>>
    /\ LowerCase(doc[t].name[2]) \in SupportedExts
    /\ TextOf[doc[t].text].chars >= 10

\* C12: with an empty pool and a text of at least 10 characters,
\* process_resume returns success with every data field at its empty default
\* (null scalars, empty skills and work_experience) and a note in error; it
\* calls no service and records no credential usage.
C12_TextOnlyResult ==
    /\ [](\A t \in Threads :
            TextOnly(t) =>
                /\ pc[t] \in {"pr_extract", "idle"}
                /\ used_key[t] = None
                /\ key_usage[mgr[t]] = <<>>
                /\ Returned(t) =>
                     /\ result[t].success = TRUE
                     /\ result[t].error = NoKeyNote
                     /\ result[t].error # Nothing
                     /\ Len(result[t].data) = 1
                     /\ LET data == result[t].data[1]
                        IN  /\ DOMAIN data =
                                 {"name", "email", "phone", "linkedin", "github",
                                  "skills", "ug_degree", "ug_college", "ug_year",
                                  "pg_degree", "pg_college", "pg_year",
                                  "total_experience_years", "work_experience"}
                            /\ \A f \in DOMAIN data \ {"skills", "work_experience"} :
                                 data[f] = [type |-> "null"]
                            /\ data.skills = [type |-> "list", items |-> <<>>]
                            /\ data.work_experience =
                                 [type |-> "list", items |-> <<>>])
    /\ [][\A t \in Threads :
            (TextOnly(t) /\ pc'[t] # pc[t]) =>
                /\ key_usage' = key_usage
                /\ configured' = configured]_vars

\* a resume was returned as text only by a parser without credentials
C12_Witness ==
    \E t \in Threads :
        /\ TextOnly(t) /\ Returned(t)
        /\ result[t].success
        /\ ran[t] = "extract_text_from_txt_bytes"

----------------------------------------------------------------------------
(* C13 *)

\* thread t works on a file of a supported type whose deduplicated text has
\* fewer than 10 characters after trimming
TooShort(t) ==
    /\ doc[t] # Nothing
    /\ LowerCase(doc[t].name[2]) \in SupportedExts
    /\ TextOf[doc[t].text].chars < 10

\* C13: a text of fewer than 10 trimmed characters (the empty text of a failed
\* extractor included) gives a failed result with the content error, and no
\* credential is requested, no usage recorded and no service called for it,
\* whatever the pool holds.
C13_ShortTextFails ==
    /\ [](\A t \in Threads :
            TooShort(t) =>
                /\ pc[t] \in {"pr_extract", "idle"}
                /\ used_key[t] = None
                /\ Returned(t) =>
                     /\ result[t].success = FALSE
                     /\ result[t].data = Nothing
                     /\ result[t].error = NoTextError)
    /\ [][\A t \in Threads :
            (TooShort(t) /\ pc'[t] # pc[t]) =>
                /\ key_usage' = key_usage
                /\ configured' = configured
                /\ wret'[t] = wret[t]]_vars

\* with a pool that has a credential to give, a text of 9 characters and the
\* empty text of a failed extractor were both refused
C13_Witness ==
    \E t1, t2 \in Threads :
        /\ TooShort(t1) /\ Returned(t1) /\ TextOf[doc[t1].text].chars = 9
        /\ TooShort(t2) /\ Returned(t2) /\ TextOf[doc[t2].text].chars = 0
        /\ ran[t2] = "extract_text_from_pdf_bytes"
        /\ result[t1].error = NoTextError
        /\ keys[mgr[t1]] # <<>>
        /\ key_usage[mgr[t1]] = <<>>

----------------------------------------------------------------------------
(* C14 *)

\* thread t works on a file whose lowercased extension is not supported
Unsupported(t) ==
    /\ doc[t] # Nothing
    /\ LowerCase(doc[t].name[2]) \notin
         {".pdf", ".docx", ".txt", ".png", ".jpg", ".jpeg", ".tiff", ".bmp"}

\* C14: for an extension outside the eight supported ones extract_text fails
\* with the unsupported-format error without calling an extractor, and
\* process_resume returns a failed result; no credential usage is recorded
\* and no service call is made.
C14_UnsupportedFormat ==
    /\ [](\A t \in Threads :
            Unsupported(t) =>
                /\ pc[t] \in {"pr_extract", "idle"}
                /\ ran[t] = None
                /\ used_key[t] = None
                /\ Returned(t) =>
                     /\ result[t].success = FALSE
                     /\ result[t].data = Nothing
                     /\ result[t].error = UnsupportedError(LowerCase(doc[t].name[2])))
    /\ [][\A t \in Threads :
            (Unsupported(t) /\ pc'[t] # pc[t]) =>
                /\ key_usage' = key_usage
                /\ configured' = configured
                /\ wret'[t] = wret[t]]_vars

\* a .xyz file was refused by a parser whose pool has a free credential
C14_Witness ==
    \E t \in Threads :
        /\ Unsupported(t) /\ Returned(t)
        /\ result[t].error = UnsupportedError(".xyz")
        /\ keys[mgr[t]] # <<>>
        /\ key_usage[mgr[t]] = <<>>

----------------------------------------------------------------------------
(* C15 *)

\* the batches a request of the model can carry
Batches == {GoodBatch(r) : r \in 1..MaxUploads} \cup {MixedBatch}

FileNames(fs) == [i \in 1..Len(fs) |-> fs[i].name]

EntryNames(rs) == [i \in 1..Len(rs) |-> rs[i].filename]

\* the request of thread t is between two files, or has returned
BetweenFiles(t) == pc[t] \in {"up_loop", "idle"}

Sent(t) == Replies[doc[t].reply]
Answer(t) == Loads(StripFence(Sent(t)))

\* parse_with_gemini has called the service and holds the value of
\* _parse_json_response; process_resume has returned after such a call
Normalized(t) == pc[t] = "pr_parsed" /\ used_key[t] # None
Finished(t) == Returned(t) /\ used_key[t] # None

\* the type the prompt asks for under each key of the response
Schema ==
    [ name |-> "str", email |-> "str", phone |-> "str", linkedin |-> "str",
      github |-> "str", skills |-> "list", ug_education |-> "dict",
      pg_education |-> "dict", total_experience_years |-> "str",
      work_experience |-> "list" ]

\* the keys of an object whose value is neither null nor of the type asked for
WrongKeys(v) ==
    {k \in DOMAIN v.fields \cap DOMAIN Schema :
        v.fields[k].type \notin {Schema[k], "null"}}

\* the fields of the record filled from a key of the response
RecordFields(k) ==
    IF k = "ug_education" THEN {"ug_degree", "ug_college", "ug_year"}
    ELSE IF k = "pg_education" THEN {"pg_degree", "pg_college", "pg_year"}
    ELSE {k}

\* an object without one of its keys
Drop(v, k) == JObj([j \in DOMAIN v.fields \ {k} |-> v.fields[j]])

\* C16: a response in which one key has a value of the wrong type, or whose
\* top-level value is no object, still gives a record: the fields of that key
\* are absent, the other fields are those of the response without the key,
\* and the document does not fail.
C16_WrongTypeTolerated ==
    \A t \in Threads :
        (doc[t] # Nothing /\ (Normalized(t) \/ Finished(t)) /\ ~Raises(Answer(t))) =>
            LET v == Answer(t)
                one == v.type = "dict" /\ Cardinality(WrongKeys(v)) = 1
            IN  /\ (Normalized(t) /\ (v.type # "dict" \/ one)) => parsed[t] # Nothing
                /\ (Normalized(t) /\ one) =>
                     \A k \in WrongKeys(v) :
                        /\ \A f \in RecordFields(k) : parsed[t][1][f] = JNull
                        /\ \A f \in DOMAIN parsed[t][1] \ RecordFields(k) :
                              parsed[t][1][f] = BuildResult(Drop(v, k))[f]
                /\ (Finished(t) /\ (v.type # "dict" \/ one)) =>
                     result[t].success = TRUE

\* the positions of a response where a JSON document stands in a fenced block:
\* the first fence of the text (with or without the word json) right before
\* it, a fence right after it
Wrapped(r) ==
    {i \in 2..(Len(r) - 1) :
        /\ r[i].tok = "body"
        /\ r[i + 1] = Fence
        /\ \/ r[i - 1] = Fence /\ Where(r, IsFence) \cap 1..(i - 2) = {}
           \/ /\ i > 2 /\ r[i - 1] = Tag /\ r[i - 2] = Fence
              /\ Where(r, IsFence) \cap 1..(i - 3) = {}}

\* the 14 fields of a record
RecordNames ==
    { "name", "email", "phone", "linkedin", "github", "skills",
      "total_experience_years", "ug_degree", "ug_college", "ug_year",
      "pg_degree", "pg_college", "pg_year", "work_experience" }

\* a fenced object with a key the schema does not know and without github
TolerantCase(t) ==
    /\ Wrapped(Sent(t)) # {}
    /\ \A i \in Wrapped(Sent(t)) :
          LET v == Sent(t)[i].value
          IN  /\ v.type = "dict"
              /\ "github" \notin DOMAIN v.fields
              /\ DOMAIN v.fields \ DOMAIN Schema # {}
              /\ WrongKeys(v) = {}

\* C17: a valid JSON object in a fenced block, with an extra key and without
\* github, is parsed into a record of the 14 fields, github absent and the
\* extra key gone; skills and work_experience are empty lists when their keys
\* are missing; a body that is not valid JSON gives no data and no exception.
C17_TolerantParse ==
    \A t \in Threads :
        /\ (doc[t] # Nothing /\ Normalized(t) /\ TolerantCase(t)) =>
              /\ parsed[t] # Nothing
              /\ DOMAIN parsed[t][1] = RecordNames
              /\ parsed[t][1].github = JNull
              /\ \A i \in Wrapped(Sent(t)) :
                    /\ parsed[t][1].name = Sent(t)[i].value.fields.name
                    /\ parsed[t][1].linkedin = Sent(t)[i].value.fields.linkedin
                    /\ parsed[t][1].skills = Sent(t)[i].value.fields.skills
        /\ (doc[t] # Nothing /\ Normalized(t) /\ parsed[t] # Nothing) =>
              /\ "skills" \notin DOMAIN Answer(t).fields
                    => parsed[t][1].skills = JList(<<>>)
              /\ "work_experience" \notin DOMAIN Answer(t).fields
                    => parsed[t][1].work_experience = JList(<<>>)
        /\ (doc[t] # Nothing /\ Normalized(t) /\ Raises(Answer(t))) =>
              parsed[t] = Nothing /\ raised[t] = Nothing
        /\ (doc[t] # Nothing /\ Finished(t) /\ Raises(Answer(t))) =>
              /\ raised[t] = Nothing
              /\ result[t].success = FALSE
              /\ result[t].data = Nothing
              /\ result[t].error = ParseFailedError

\* a fenced object with prose around it, an extra key and no github was
\* parsed into a record with github absent
C17_Witness ==
    \E t \in Threads :
        /\ doc[t] # Nothing /\ Normalized(t) /\ TolerantCase(t)
        /\ Sent(t)[1] = Prose
        /\ parsed[t] # Nothing
        /\ parsed[t][1].github = JNull
        /\ "hobbies" \notin DOMAIN parsed[t][1]

\* the shape local-part@domain.tld: one "@", something before it, after it
\* labels separated by dots, the last one of at least 2 letters, and no
\* white space anywhere
AddressShape(s) ==
    \E at \in 2..Len(s) :
        /\ s[at] = "@"
        /\ \A i \in 1..Len(s) : (s[i] = "@" => i = at) /\ ~IsSpace(s[i])
        /\ \E dot \in (at + 2)..(Len(s) - 2) :
              /\ s[dot] = "."
              /\ \A i \in (dot + 1)..Len(s) : IsLetter(s[i])

\* the value the response carries under a key (null when the key is missing)
Asked(t, key) == Get(Answer(t), key)

\* C18: in every record email is absent or a lowercase string of the shape
\* local-part@domain.tld, and phone is absent or the string of the response
\* with 10 to 15 digits; a string that fails validation makes only its own
\* field absent, and the document does not fail.
C18_ContactFields ==
    \A t \in Threads :
        /\ (doc[t] # Nothing /\ Normalized(t) /\ parsed[t] # Nothing) =>
              /\ \/ parsed[t][1].email = JNull
                 \/ /\ parsed[t][1].email.type = "str"
                    /\ parsed[t][1].email.chars = Lower(parsed[t][1].email.chars)
                    /\ AddressShape(parsed[t][1].email.chars)
              /\ \/ parsed[t][1].phone = JNull
                 \/ /\ parsed[t][1].phone.type = "str"
                    /\ parsed[t][1].phone = Asked(t, "phone")
                    /\ DigitCount(parsed[t][1].phone.chars) \in 10..15
        /\ (/\ doc[t] # Nothing /\ Normalized(t) /\ ~Raises(Answer(t))
            /\ Answer(t).type = "dict" /\ WrongKeys(Answer(t)) = {}
            /\ ~Raises(NormalizeExperience(Asked(t, "total_experience_years")))) =>
              /\ parsed[t] # Nothing
              /\ parsed[t][1].name = Asked(t, "name")
              /\ parsed[t][1].linkedin = Asked(t, "linkedin")

\* the text of a degree or college for the filter: str() of the value in
\* lower case, the empty text for a value Python takes as false
FilterText(v) == IF Truthy(v) THEN Lower(Str(v)) ELSE <<>>

Diploma == <<"d", "i", "p", "l", "o", "m", "a">>
Polytechnic == <<"p", "o", "l", "y", "t", "e", "c", "h", "n", "i", "c">>

\* an entry the spec excludes from the UG and PG fields
Excluded(edu) ==
    \/ Contains(FilterText(Get(edu, "degree")), Diploma)
    \/ Contains(FilterText(Get(edu, "college")), Diploma)
    \/ Contains(FilterText(Get(edu, "college")), Polytechnic)

\* the three fields of a level in the record
Level(rec, lv) ==
    IF lv = "ug" THEN <<rec.ug_degree, rec.ug_college, rec.ug_year>>
    ELSE <<rec.pg_degree, rec.pg_college, rec.pg_year>>

LevelKey(lv) == IF lv = "ug" THEN "ug_education" ELSE "pg_education"

\* the entry of a level in the response, when it is a non-empty object
HasEntry(t, lv) ==
    /\ ~Raises(Answer(t)) /\ Answer(t).type = "dict"
    /\ Asked(t, LevelKey(lv)).type = "dict"
    /\ DOMAIN Asked(t, LevelKey(lv)).fields # {}

\* C19: an entry whose degree or college contains "diploma" (in any case), or
\* whose college contains "polytechnic", leaves degree, college and year of
\* its level all absent; any other entry is passed through whole; a level is
\* never partly filled from an excluded entry.
C19_DiplomaFilter ==
    \A t \in Threads : \A lv \in {"ug", "pg"} :
        (doc[t] # Nothing /\ Normalized(t) /\ parsed[t] # Nothing /\ HasEntry(t, lv)) =>
            LET edu == Asked(t, LevelKey(lv))
            IN  IF Excluded(edu)
                THEN Level(parsed[t][1], lv) = <<JNull, JNull, JNull>>
                ELSE Level(parsed[t][1], lv) =
                        <<Get(edu, "degree"), Get(edu, "college"), Get(edu, "year")>>

\* an entry with an ordinary degree at a polytechnic was excluded, while the
\* other level of the same response was passed through
C19_Witness ==
    \E t \in Threads :
        /\ doc[t] # Nothing /\ Normalized(t) /\ parsed[t] # Nothing
        /\ HasEntry(t, "ug") /\ HasEntry(t, "pg")
        /\ Excluded(Asked(t, "ug_education"))
        /\ ~Contains(FilterText(Get(Asked(t, "ug_education"), "degree")), Diploma)
        /\ Get(Asked(t, "ug_education"), "year") # JNull
        /\ Level(parsed[t][1], "ug") = <<JNull, JNull, JNull>>
        /\ ~Excluded(Asked(t, "pg_education"))
        /\ parsed[t][1].pg_degree # JNull

\* the entries of the spec's table: input and canonical string
ExperienceTable ==
    { <<JStr(<<"4", "+">>), JStr(<<"4", "+">>)>>,
      <<JStr(<<"2", " ", "y", "e", "a", "r", "s", " ", "6", " ", "m", "o", "n", "t", "h", "s">>),
        JStr(<<"2", ".", "5">>)>>,
      <<JStr(<<"1", "8", " ", "m", "o", "n", "t", "h", "s">>), JStr(<<"1", ".", "5">>)>>,
      <<JStr(<<"6">>), JStr(<<"6">>)>>,
      <<JStr(<<"4", ".", "5">>), JStr(<<"4", ".", "5">>)>>,
      <<JStr(<<"6", ".", "0">>), JStr(<<"6">>)>>,
      <<JStr(<<>>), JNull>>,
      <<JNull, JNull>>,
      <<JStr(<<"n", "o", "n", "e">>), JNull>>,
      <<JStr(<<"a", "b", "c">>), JNull>> }

\* a text of digits only: a whole-valued bare number
WholeNumber(x) ==
    /\ x.type = "str" /\ x.chars # <<>>
    /\ \A i \in 1..Len(x.chars) : IsDigit(x.chars[i])

\* the digits of a whole number without its leading zeros (one zero is kept)
Unpadded(s) ==
    IF \A i \in 1..Len(s) : s[i] = "0" THEN <<"0">>
    ELSE From(s, Least({i \in 1..Len(s) : s[i] # "0"}))

\* a response whose keys other than total_experience_years are well-formed
ExperienceCase(t) ==
    /\ ~Raises(Answer(t)) /\ Answer(t).type = "dict"
    /\ WrongKeys(Answer(t)) \subseteq {"total_experience_years"}

\* C20: normalize_experience never raises (the record is built whatever the
\* value of total_experience_years is), gives each input of the spec's table
\* its canonical string, and gives a whole-valued bare number its integer
\* form.
C20_ExperienceTable ==
    \A t \in Threads :
        (doc[t] # Nothing /\ Normalized(t) /\ ExperienceCase(t)) =>
            LET x == Asked(t, "total_experience_years")
            IN  /\ parsed[t] # Nothing
                /\ \A row \in ExperienceTable :
                      x = row[1] => parsed[t][1].total_experience_years = row[2]
                /\ WholeNumber(x) =>
                      parsed[t][1].total_experience_years = JStr(Unpadded(x.chars))


----------------------------------------------------------------------------
(* the text helpers *)

Deduplicated == targ # Nothing /\ targ.fn = "deduplicate_lines"

Fixed == targ # Nothing /\ targ.fn = "fix_ocr_artifacts"

\* C21: deduplicate_lines is idempotent: applied with the same threshold to
\* the list it returned, it returns that list unchanged, whatever the lines
\* and the threshold.
C21_Idempotent ==
    (Deduplicated /\ tagain # Nothing) => tagain[1] = tval[1]

\* a second pass over a value from which the first pass stripped blanks,
\* dropped one line and kept two
C21_Witness ==
    /\ Deduplicated
    /\ tagain # Nothing
    /\ Len(tval[1]) = 2
    /\ Len(targ.lines) = 3
    /\ \E i \in 1..3 : targ.lines[i] = <<" ", " ", "a", "b", " ">>
    /\ <<"a", "b">> \in Range(tval[1])

\* the similarity of two lines, compared case-insensitively, is strictly
\* below the threshold
Below(a, b, threshold) ==
    2 * Matches(Lower(a), Lower(b)) * threshold[2]
        < threshold[1] * (Len(a) + Len(b))

\* the positions of lines a set of kept positions says to keep: the
\* non-blank ones that are below the threshold against every kept position
\* before them
KeepsItself(lines, kept, threshold) ==
    \A i \in 1..Len(lines) :
        i \in kept <=>
            /\ Strip(lines[i]) # <<>>
            /\ \A j \in kept : j < i => Below(Strip(lines[i]), Strip(lines[j]), threshold)

RECURSIVE InOrder(_, _)
\* the trimmed lines at the positions of kept, in input order
InOrder(lines, kept) ==
    IF kept = {} THEN <<>>
    ELSE LET last == CHOOSE i \in kept : \A j \in kept : j <= i
         IN  Append(InOrder(lines, kept \ {last}), Strip(lines[last]))

\* C22: deduplicate_lines returns, in input order, exactly the trimmed
\* non-blank lines whose case-insensitive similarity to every previously
\* kept line is strictly below the threshold: a line whose similarity to a
\* kept line equals the threshold is dropped, one just below it is kept, and
\* the first non-blank line is always kept.
C22_KeptLines ==
    Deduplicated =>
        /\ \E kept \in SUBSET (1..Len(targ.lines)) :
             /\ KeepsItself(targ.lines, kept, targ.threshold)
             /\ tval[1] = InOrder(targ.lines, kept)
        /\ (\E i \in 1..Len(targ.lines) : Strip(targ.lines[i]) # <<>>)
               => /\ tval[1] # <<>>
                  /\ \E i \in 1..Len(targ.lines) :
                       /\ tval[1][1] = Strip(targ.lines[i])
                       /\ \A j \in 1..(i - 1) : Strip(targ.lines[j]) = <<>>

\* the default threshold 0.85 and two lines of similarity exactly 34/40: the
\* second is dropped
C22_Witness ==
    /\ Deduplicated
    /\ targ.threshold = DefaultThreshold
    /\ targ.lines = <<LongLines[1], LongLines[2]>>
    /\ 2 * Matches(LongLines[1], LongLines[2]) * 100 = 85 * 40
    /\ tval[1] = <<LongLines[1]>>

\* the same first line and a line of similarity 34/41, just below: both kept
C22_JustBelow ==
    (Deduplicated /\ targ.threshold = DefaultThreshold
        /\ targ.lines = <<LongLines[1], LongLines[3]>>)
    => tval[1] = targ.lines

John == <<"j", "o", "h", "n", "@">>

\* the text is john@ at one of the five domains, in any case, followed by
\* an ending that is one of the given ones in any case
TruncatedAt(text, dom, endings) ==
    /\ Len(text) > Len(John) + Len(dom)
    /\ Lower(SubSeq(text, 1, Len(John) + Len(dom))) = John \o dom
    /\ Lower(SubSeq(text, Len(John) + Len(dom) + 1, Len(text))) \in endings

DotC == <<".", "c">>
DotCo == <<".", "c", "o">>
DotCom == <<".", "c", "o", "m">>

\* the value is john@ at the domain with the ending com
Repaired(endings) ==
    Fixed =>
        \A dom \in FixedDomains :
            TruncatedAt(targ.text, dom, endings)
                => Lower(tval[1]) = John \o dom \o DotCom

\* C23: fix_ocr_artifacts repairs an address at gmail, yahoo, hotmail,
\* outlook or icloud whose domain ends in a bare "c" or a bare "co", in any
\* case, so that it ends in "com" ("john@gmail.c" and "john@gmail.co" both
\* give "john@gmail.com"), and leaves a complete ".com" as it is.
C23_TruncatedDomain == Repaired({DotC, DotCo, DotCom})

\* the claim without the ending "co"
C23_BareC == Repaired({DotC, DotCom})

\* fix_ocr_artifacts("john@gmail.co") = "john@gmail.co"
C23_CoUnchanged ==
    /\ Fixed
    /\ targ.text = John \o <<"g", "m", "a", "i", "l">> \o DotCo
    /\ tval[1] = targ.text

----------------------------------------------------------------------------
(* C24 *)

\* the exhausted flag of a credential goes from set to clear in this step
Cleared(m, k) == Usage(m, k).is_exhausted /\ ~key_usage'[m][k].is_exhausted

\* thread t passes over the credential it examines
Skips(t) == pc'[t] = "gak_scan" /\ idx'[t] = idx[t] + 1

\* once set, the flag is cleared only by a date rollover, and a credential
\* marked exhausted is not returned
FlagKept(t) ==
    /\ \A m \in Managers : \A k \in DOMAIN key_usage[m] :
          Cleared(m, k) => RolledOver(m, k)
    /\ (ScanStep(t) /\ MarkedExhausted(mgr[t], ScannedKey(t))) => Skips(t)
    /\ RecordStep(t) => ~MarkedExhausted(mgr[t], ScannedKey(t))

\* C24: whenever get_available_key examines a credential whose request count
\* for the current day is 1500 or more, it skips that credential and marks it
\* exhausted in that same call; once set, the exhausted flag is cleared only
\* by a date rollover, and an exhausted credential is never returned.
C24_MarkedAtOnce ==
    [][\A t \in Threads :
         /\ (ScanStep(t) /\ TodayCount(mgr[t], ScannedKey(t)) >= RPD_LIMIT) =>
               /\ Skips(t)
               /\ key_usage'[mgr[t]][ScannedKey(t)].is_exhausted
         /\ FlagKept(t)]_vars

\* C24 as amended: the credential is skipped in every case, and marked
\* exhausted in that same call when fewer than 15 of its requests are
\* younger than 60 seconds; at the per-minute limit it is skipped before the
\* daily check and its flag is left as it was.
C24_MarkedAtDailyCheck ==
    [][\A t \in Threads :
         /\ (ScanStep(t) /\ TodayCount(mgr[t], ScannedKey(t)) >= RPD_LIMIT) =>
               /\ Skips(t)
               /\ key_usage'[mgr[t]][ScannedKey(t)].requests_today = RPD_LIMIT
               /\ key_usage'[mgr[t]][ScannedKey(t)].is_exhausted
                     <=> \/ LiveRequests(mgr[t], ScannedKey(t)) < RPM_LIMIT
                         \/ MarkedExhausted(mgr[t], ScannedKey(t))
         /\ FlagKept(t)]_vars

\* the first credential has its 1500 requests of the day, 15 of them within
\* the minute, is not marked, and a caller has passed it over
C24_Witness ==
    \E t \in Threads :
        /\ pc[t] = "gak_scan"
        /\ idx[t] = 2
        /\ TodayCount(1, keys[1][1]) = RPD_LIMIT
        /\ LiveRequests(1, keys[1][1]) = RPM_LIMIT
        /\ ~Usage(1, keys[1][1]).is_exhausted

\* the credential was marked once the window had room
C24_MarkedLater ==
    /\ MarkedExhausted(1, keys[1][1])
    /\ LiveRequests(1, keys[1][1]) > 0

----------------------------------------------------------------------------
(* C25 *)

\* thread t makes its service call in this step
CallStep(t) == pc[t] = "pwg_call" /\ pc'[t] # pc[t]

\* C25: when several process_resume calls run concurrently, each service
\* call is made with the credential that was acquired, and had its usage
\* recorded, for that same call: the credential in effect at the moment of
\* the service call is never the one another concurrent call configured.
C25_OwnCredential ==
    [][\A t \in Threads : CallStep(t) => used_key'[t] = wret[t]]_vars

\* two calls in flight, each past genai.configure with a credential of its
\* own, the second configure having replaced the first
C25_Overwritten ==
    \E t1, t2 \in Threads :
        /\ pc[t1] = "pwg_call"
        /\ pc[t2] = "pwg_call"
        /\ wret[t1] # wret[t2]
        /\ configured = wret[t2]

----------------------------------------------------------------------------
(* C26 *)

\* credential k of manager m passes the four checks at the instant tau for
\* a request of `tokens` tokens, going by the usage recorded now
EligibleAt(m, k, tau, tokens) ==
    LET u == Usage(m, k)
        live == {i \in 1..Len(u.requests_per_minute) :
                    tau - u.requests_per_minute[i] < WindowSeconds}
        spent == SumTokens(SelectSeq(u.tokens_per_minute,
                                     LAMBDA e : tau - e[1] < WindowSeconds))
    IN  /\ Cardinality(live) < RPM_LIMIT
        /\ u.last_reset = Date(tau) => (~u.is_exhausted /\ u.requests_today < RPD_LIMIT)
        /\ spent + tokens <= TPM_LIMIT

\* thread t leaves wait_for_available_key with nothing in this step
GivesUp(t) == pc[t] = "wfk_loop" /\ pc'[t] = "idle" /\ wret'[t] = None

\* the call of thread t is the only call ever made on the pool
OnlyCaller(t) == left = MaxWaitCalls - 1 /\ \A o \in Threads \ {t} : pc[o] = "idle"

\* C26: if a credential becomes eligible at some instant strictly before
\* max_wait has elapsed since wait_for_available_key was called, and no other
\* caller takes it, the call returns that credential instead of nothing; in
\* particular a caller that starts waiting with the default max_wait of 65
\* seconds at the moment a single credential's 15th request was recorded
\* obtains the credential once the 60-second window has passed.
C26_EligibleInTime ==
    [][\A t \in Threads :
         (GivesUp(t) /\ OnlyCaller(t)) =>
             ~\E i \in 1..Len(keys[mgr[t]]) :
                 \E tau \in start_time[t]..(start_time[t] + max_wait[t] - 1) :
                     EligibleAt(mgr[t], keys[mgr[t]][i], tau, wtokens[t])]_vars

\* the default wait on a single credential whose 15 requests were recorded
\* at the moment of the call is about to end with nothing, 65 seconds later
C26_DefaultWaitFails ==
    \E t \in Threads :
        /\ pc[t] = "wfk_loop"
        /\ OnlyCaller(t)
        /\ Len(keys[mgr[t]]) = 1
        /\ max_wait[t] = DefaultMaxWait
        /\ now = start_time[t] + DefaultMaxWait
        /\ Usage(mgr[t], keys[mgr[t]][1]).requests_per_minute = Repeat(start_time[t], RPM_LIMIT)
        /\ EligibleAt(mgr[t], keys[mgr[t]][1], start_time[t] + WindowSeconds, wtokens[t])

\* the claim for the waits other than the default one
C26_OtherWaits ==
    [][\A t \in Threads :
         (GivesUp(t) /\ OnlyCaller(t) /\ max_wait[t] # DefaultMaxWait) =>
             ~\E i \in 1..Len(keys[mgr[t]]) :
                 \E tau \in start_time[t]..(start_time[t] + max_wait[t] - 1) :
                     EligibleAt(mgr[t], keys[mgr[t]][i], tau, wtokens[t])]_vars

----------------------------------------------------------------------------
(* C27 *)

\* the call of t has a credential: its usage entry is recorded
HasRecorded(t) ==
    \/ pc[t] = "wfk_polled" /\ ret[t] # None
    \/ pc[t] = "pwg_got_key" /\ wret[t] # None
    \/ pc[t] = "pwg_call"
    \/ pc[t] = "pr_parsed" /\ used_key[t] # None

\* the call of t is under way, or has returned, without a credential
NotRecorded(t) ==
    \/ pc[t] \in {"pr_extract", "pwg_enter", "wfk_loop", "gak_scan", "gak_record", "wfk_sleep"}
    \/ pc[t] = "wfk_polled" /\ ret[t] = None
    \/ pc[t] = "pwg_got_key" /\ wret[t] = None
    \/ pc[t] = "pr_parsed" /\ used_key[t] = None
    \/ Returned(t) /\ used_key[t] = None

\* the last call of t reached the service and has returned
ReturnedServed(t) == Returned(t) /\ used_key[t] # None

RECURSIVE DailySum(_, _)
\* the daily counts of the first n credentials of manager m, added up
DailySum(m, n) ==
    IF n = 0 THEN 0 ELSE Usage(m, keys[m][n]).requests_today + DailySum(m, n - 1)

\* the tokens process_resume estimates for the document of t
DocTokens(t) == EstimateTokens(PromptWords + TextOf[doc[t].text].words)

\* how often x occurs in the sequence s
Times(s, x) == Cardinality({i \in 1..Len(s) : s[i] = x})

\* every entry of credential k still inside its minute stays, and the daily
\* count does not go down before the date changes
NotRolledBack(m, k) ==
    LET old == key_usage[m][k]
        new == key_usage'[m][k]
    IN  /\ RolledOver(m, k) \/ new.requests_today >= old.requests_today
        /\ \A r \in Range(old.requests_per_minute) :
              now' - r < WindowSeconds =>
                  Times(new.requests_per_minute, r) >= Times(old.requests_per_minute, r)
        /\ \A e \in Range(old.tokens_per_minute) :
              now' - e[1] < WindowSeconds =>
                  Times(new.tokens_per_minute, e) >= Times(old.tokens_per_minute, e)

\* the pool of the parser started empty and the date has not changed
FreshPool ==
    /\ Date(now) = Date(StartClock)
    /\ DailySum(1, Len(keys[1])) < RPM_LIMIT - 1

C27_Step(t) ==
    LET m == mgr[t] IN
    /\ RecordStep(t) =>
          /\ NotRecorded(t)
          /\ pc'[t] = "wfk_polled" /\ ret'[t] = ScannedKey(t)
          /\ key_usage'[m][ScannedKey(t)].requests_today
                = Usage(m, ScannedKey(t)).requests_today + 1
          /\ key_usage'[m][ScannedKey(t)].requests_per_minute
                = Append(Usage(m, ScannedKey(t)).requests_per_minute, now)
          /\ key_usage'[m][ScannedKey(t)].tokens_per_minute
                = Append(Usage(m, ScannedKey(t)).tokens_per_minute, <<now, DocTokens(t)>>)
    /\ (HasRecorded(t) /\ pc'[t] # pc[t]) =>
          /\ HasRecorded(t)' \/ ReturnedServed(t)'
          /\ key_usage' = key_usage
    /\ CallStep(t) =>
          /\ wret[t] # None
          /\ now \in Range(Usage(m, wret[t]).requests_per_minute)
          /\ <<now, DocTokens(t)>> \in Range(Usage(m, wret[t]).tokens_per_minute)
          /\ Usage(m, wret[t]).requests_today >= 1

\* C27: each process_resume call records at most one usage entry in the
\* pool, and exactly one when it reaches the service call; that entry is not
\* rolled back when the service call raises or its response cannot be
\* parsed, so a failed document still consumes one per-minute slot, one daily
\* request and its estimated tokens.
C27_OneEntryPerCall ==
    /\ [](FreshPool =>
            /\ Cardinality({t \in Threads : HasRecorded(t) \/ ReturnedServed(t)})
                  <= DailySum(1, Len(keys[1]))
            /\ DailySum(1, Len(keys[1]))
                  <= (MaxResumes - left) - Cardinality({t \in Threads : NotRecorded(t)}))
    /\ [][/\ \A t \in Threads : C27_Step(t)
          /\ \A k \in DOMAIN key_usage[1] : NotRolledBack(1, k)]_vars

\* a document whose service call raised has returned as a failure, and the
\* pool, fresh before, holds its one entry
C27_Witness ==
    \E t \in Threads :
        /\ ReturnedServed(t)
        /\ doc[t].reply = "raises"
        /\ ~result[t].success
        /\ left = MaxResumes - 1
        /\ DailySum(1, Len(keys[1])) = 1
        /\ Usage(1, wret[t]).tokens_per_minute = <<<<now, DocTokens(t)>>>>

----------------------------------------------------------------------------
(* C28 *)

\* C28: in every reachable state of a GeminiKeyManager, for every
\* credential: the count of requests for the current day is between 0 and
\* 1500, the number of recorded request timestamps equals the number of
\* recorded token entries, and the exhausted flag is set only if the daily
\* count is 1500.
C28_UsageInvariant ==
    \A m \in Managers : \A k \in DOMAIN key_usage[m] :
        LET u == key_usage[m][k] IN
        /\ u.requests_today >= 0
        /\ u.requests_today <= RPD_LIMIT
        /\ Len(u.requests_per_minute) = Len(u.tokens_per_minute)
        /\ u.is_exhausted => u.requests_today = RPD_LIMIT

\* the first credential took the last two requests of its day and was then
\* marked exhausted, the two entries still in its windows
C28_Witness ==
    LET u == Usage(1, keys[1][1]) IN
    /\ u.is_exhausted
    /\ u.requests_today = RPD_LIMIT
    /\ Len(u.requests_per_minute) = NearFull
    /\ Len(u.tokens_per_minute) = NearFull

----------------------------------------------------------------------------
(* C29 *)

\* no two stored resumes have the same content hash
UniqueHashes ==
    \A row \in BagToSet(db) :
        /\ CopiesIn(row, db) = 1
        /\ \A other \in BagToSet(db) :
              other.content_hash = row.content_hash => other = row

\* thread t examines a file whose content hash is stored: the file is
\* reported as a duplicate, process_resume is not called and nothing is
\* stored
DuplicateStep(t) ==
    (pc[t] = "up_loop" /\ files[t] # <<>> /\ Existing(Head(files[t]).hash)
        /\ files'[t] # files[t]) =>
        /\ results'[t] = Append(results[t],
                [filename |-> Head(files[t]).name, success |-> FALSE,
                 message |-> DuplicateMessage])
        /\ pc'[t] = "up_loop"
        /\ db' = db
        /\ key_usage' = key_usage

C29_StoredTwice ==
    \E row \in BagToSet(db) : CopiesIn(row, db) = 2

\* the claim for requests served one after the other
C29_OneAtATime ==
    /\ []((\E t \in Threads : files[t] = <<>> /\ results[t] = <<>>) => UniqueHashes)
    /\ [][\A t \in Threads : DuplicateStep(t)]_vars

====
